---- MODULE Spec2Model ----
(***************************************************************************)
(* A model of the template generation engine of the SAC mass-upload        *)
(* generator (src/backend/sac_generator.py).                               *)
(*                                                                         *)
(* The module holds several specifications over one set of variables, one  *)
(* per part of the engine:                                                 *)
(*   SpecLeaf / FairSpecLeaf   SACGenerator.get_leaf_members               *)
(*   SpecFilter                SACGenerator.apply_filters                  *)
(*   SpecDate                  SACGenerator.load_date_range                *)
(*   SpecGen                   SACGenerator.generate, create_excel and the *)
(*                             control flow of load_dimension              *)
(*   SpecLoad                  SACGenerator.load_dimension stage by stage, *)
(*                             load_csv and extract_column_values          *)
(*   SpecExtract               load_dimension in the extraction mode, for  *)
(*                             every filter spec                           *)
(*   SpecSheet                 SACGenerator._setup_upload_sheet            *)
(*   SpecDims                  api_dimension (src/backend/app.py)          *)
(*   SpecFind                  SACGenerator.find_csv_file                  *)
(*   SpecOver                  the overrides and the dataset cache of      *)
(*                             generate and create_excel, and api_preview  *)
(*   SpecBook                  create_excel from the Upload sheet on, with *)
(*                             _setup_dimension_sheet, _add_data_validation*)
(* Each specification leaves the variables of the other parts untouched.   *)
(***************************************************************************)
EXTENDS Integers, Sequences, FiniteSets, TLC

VARIABLES
    \* ---- get_leaf_members, apply_filters ----
    table,          \* the df argument of the function called
    filters,        \* the filters argument of apply_filters
    parent_filter,  \* the parent_filter argument
    df,             \* the local df (reassigned by the subtree restriction)
    descendants,    \* the local set descendants
    to_process,     \* the local set to_process
    ret,            \* the returned table
    pc,             \* position inside get_leaf_members
    run,            \* 1: first invocation, 2: the invocation on the first output set
    first,          \* descendant set of the first invocation
    \* ---- load_date_range ----
    manual_range,   \* project["date_range"]: start_month and end_month
    version_file,   \* what downloads/VersionMaster.csv holds for the version
    date_range,     \* self.date_range
    year,           \* the locals of the expansion loop
    month,
    end_year,
    end_m,
    dpc,            \* position inside load_date_range
    dr_steps,       \* the branches load_date_range has taken, in order
    \* ---- generate, create_excel ----
    templates_config,  \* templates_config["templates"]
    template_name,     \* the template_name argument of generate (0: None)
    templates,         \* the local list templates (the selected templates)
    tpos,                 \* position of the loop `for template in templates`
    results,           \* the local dict results
    self_warnings,     \* self.warnings
    self_errors,       \* self.errors
    dimension_data,    \* self.dimension_data
    dimension_errors,  \* the local list dimension_errors of create_excel
    cpos,                 \* position of the loop `for col in columns`
    loads,             \* the calls of load_dimension, as <<template, column>>
    written,           \* the templates whose workbook wb.save has written
    result,            \* the OperationResult generate returns
    gpc,               \* position inside generate / create_excel
    \* ---- load_dimension, load_csv, extract_column_values ----
    dim_config,     \* the dim_config argument of load_dimension
    csv_file,       \* the source file of the dimension in the downloads directory
    ld_df,          \* the local df of load_dimension
    original_col,   \* the column load_dimension renames to ID ("": none)
    stages,         \* the stages load_dimension has applied, with their outputs
    ld_result,      \* what load_dimension (or load_csv) returns or raises
    ld_pc,          \* position inside load_dimension
    \* ---- _setup_upload_sheet ----
    sheet_columns,  \* the columns argument
    ws_row1,        \* the value of each cell of row 1 of the Upload sheet ws
    col_idx,        \* position of the loop over the headers
    sh_pc,          \* position inside _setup_upload_sheet
    \* ---- api_dimension ----
    dimensions_json, \* data["dimensions"] as config/dimensions.json holds it
    \* ---- find_csv_file ----
    downloads,      \* the names of the files in self.downloads_dir
    sac_name,       \* the sac_name argument
    has_hierarchy,  \* the has_hierarchy argument
    fc_patterns,    \* the local list patterns
    fpos,           \* position of the loop `for pattern in patterns`
    found,          \* the returned path (<<>>: None)
    f_pc,           \* position inside find_csv_file
    \* ---- create_excel: the sheets and the validation ----
    bk_template,      \* the template argument of create_excel
    project_settings, \* self.project["settings"]
    ce_dimensions,    \* the local dict dimensions of create_excel
    bk_data,          \* len(self.dimension_data[col]) for every column
    upload_rows,      \* the data-entry rows created on the Upload sheet
    sheetnames,       \* the titles of the lookup sheets created
    wb_tables,        \* the tables registered by ws.add_table
    data_validations, \* the validations added to the Upload sheet
    bk_pos,           \* position of the loop over the columns
    bk_pc,            \* position inside create_excel
    \* ---- generate and create_excel: overrides and cache; api_preview ----
    dimensions_config, \* self.dimensions_config["dimensions"]
    ov_templates,      \* the list templates of generate
    ov_tpos,           \* position of the loop `for template in templates`
    ov_dimensions,     \* the local dict dimensions of create_excel
    ov_pos,            \* position of the loop over the overrides or the columns
    ov_cache,          \* self.dimension_data
    ov_loads,          \* the calls of load_dimension and the filters they were given
    ov_warnings,       \* self.warnings
    ov_outcomes,       \* success or failure of each template generated
    previewed,         \* the calls of load_dimension made by api_preview
    ov_pc              \* position inside generate / create_excel / api_preview

leafVars == <<table, parent_filter, df, descendants, to_process, ret, pc, run, first>>

dateVars == <<manual_range, version_file, date_range, year, month, end_year, end_m, dpc,
              dr_steps>>

genVars == <<templates_config, template_name, templates, tpos, results, self_warnings,
             self_errors, dimension_data, dimension_errors, cpos, loads, written, result, gpc>>

loadVars == <<dim_config, csv_file, ld_df, original_col, stages, ld_result, ld_pc>>

sheetVars == <<sheet_columns, ws_row1, col_idx, sh_pc>>

findVars == <<downloads, sac_name, has_hierarchy, fc_patterns, fpos, found, f_pc>>

bookVars == <<bk_template, project_settings, ce_dimensions, bk_data, upload_rows, sheetnames,
              wb_tables, data_validations, bk_pos, bk_pc>>

overVars == <<dimensions_config, ov_templates, ov_tpos, ov_dimensions, ov_pos, ov_cache,
              ov_loads, ov_warnings, ov_outcomes, previewed, ov_pc>>

moreVars == <<findVars, bookVars, overVars>>

restVars == <<loadVars, sheetVars, dimensions_json, moreVars>>

vars == <<leafVars, filters, dateVars, genVars, restVars>>

(***************************************************************************)
(* The variables of a part that a specification does not use.              *)
(***************************************************************************)
IdleDate ==
    /\ manual_range = [start_month |-> <<>>, end_month |-> <<>>]
    /\ version_file = [state |-> "missing", start |-> <<>>, end |-> <<>>]
    /\ date_range = <<>>
    /\ year = 0
    /\ month = 0
    /\ end_year = 0
    /\ end_m = 0
    /\ dpc = "idle"
    /\ dr_steps = <<>>

NoResult == [status |-> "none", data |-> <<>>, errors |-> <<>>, warnings |-> <<>>]

NoResults == [success |-> <<>>, failed |-> <<>>, warnings |-> <<>>]

IdleGen ==
    /\ templates_config = <<>>
    /\ template_name = 0
    /\ templates = <<>>
    /\ tpos = 0
    /\ results = NoResults
    /\ self_warnings = <<>>
    /\ self_errors = <<>>
    /\ dimension_data = <<>>
    /\ dimension_errors = <<>>
    /\ cpos = 0
    /\ loads = <<>>
    /\ written = {}
    /\ result = NoResult
    /\ gpc = "idle"

NoTable == [cols |-> {}, rows |-> <<>>]

IdleLoad ==
    /\ dim_config = <<>>
    /\ csv_file = [state |-> "absent"]
    /\ ld_df = NoTable
    /\ original_col = ""
    /\ stages = <<>>
    /\ ld_result = <<>>
    /\ ld_pc = "idle"

IdleSheet ==
    /\ sheet_columns = <<>>
    /\ ws_row1 = <<>>
    /\ col_idx = 0
    /\ sh_pc = "idle"

IdleDims == dimensions_json = <<>>

IdleFind ==
    /\ downloads = {}
    /\ sac_name = <<>>
    /\ has_hierarchy = FALSE
    /\ fc_patterns = <<>>
    /\ fpos = 0
    /\ found = <<>>
    /\ f_pc = "idle"

IdleBook ==
    /\ bk_template = <<>>
    /\ project_settings = <<>>
    /\ ce_dimensions = <<>>
    /\ bk_data = <<>>
    /\ upload_rows = <<>>
    /\ sheetnames = <<>>
    /\ wb_tables = {}
    /\ data_validations = <<>>
    /\ bk_pos = 0
    /\ bk_pc = "idle"

IdleOver ==
    /\ dimensions_config = <<>>
    /\ ov_templates = <<>>
    /\ ov_tpos = 0
    /\ ov_dimensions = <<>>
    /\ ov_pos = 0
    /\ ov_cache = <<>>
    /\ ov_loads = <<>>
    /\ ov_warnings = <<>>
    /\ ov_outcomes = <<>>
    /\ previewed = <<>>
    /\ ov_pc = "idle"

IdleMore == IdleFind /\ IdleBook /\ IdleOver

IdleRest == IdleLoad /\ IdleSheet /\ IdleDims /\ IdleMore

IdleLeaf ==
    /\ table = [cols |-> {}, rows |-> <<>>]
    /\ parent_filter = [kind |-> "none", ids |-> {}]
    /\ df = [cols |-> {}, rows |-> <<>>]
    /\ descendants = {}
    /\ to_process = {}
    /\ ret = [cols |-> {}, rows |-> <<>>]
    /\ pc = "idle"
    /\ run = 1
    /\ first = {}
    /\ filters = [exclude_description |-> <<>>, id_list |-> <<>>]

(***************************************************************************)
(* Tables.  pd.read_csv(dtype=str) gives string cells, an empty cell is    *)
(* NaN.  A table is its set of column names and its sequence of rows; a    *)
(* row has a cell for every column the model knows, the cells of columns   *)
(* the table does not have are NaN and never read.                         *)
(***************************************************************************)
NaN == "NaN"

\* a Description cell is its sequence of characters; the NaN Description
DescNaN == <<NaN>>

\* the filters of a dimension without exclusion patterns and allow-list
NoFilters == [exclude_description |-> <<>>, id_list |-> <<>>]

IdSeq == <<"A", "B", "C">>

IdVals == {IdSeq[i] : i \in DOMAIN IdSeq}

ParentColNames == {"H1_PARENTID", "H2_PARENTID"}

Cell(row, col) ==
    CASE col = "ID" -> row.ID
      [] col = "Description" -> row.Description
      [] col = "H1_PARENTID" -> row.H1_PARENTID
      [] col = "H2_PARENTID" -> row.H2_PARENTID

RowSet(rows) == {rows[i] : i \in DOMAIN rows}

IdsOf(rows) == {rows[i].ID : i \in DOMAIN rows}

\* find_parent_columns: the columns whose name ends in _PARENTID
find_parent_columns(t) == {c \in t.cols : c \in ParentColNames}

\* `if parent_filter:` - None, "" and [] are falsy
Truthy(pf) == pf.kind # "none" /\ pf.ids # {}

\* df[df[col] == current]['ID'] over every parent column (NaN equals nothing)
Children(rows, pcols, current) ==
    {rows[i].ID : i \in {j \in DOMAIN rows :
                            \E c \in pcols : Cell(rows[j], c) = current}}

NewChildrenNoVisited(rows, pcols, current, desc) ==
    Children(rows, pcols, current)

\* the children of current that pass `if child not in descendants`
NewChildren(rows, pcols, current, desc) ==
    Children(rows, pcols, current) \ desc

NextFrontierNoAdd(frontier, current, new) == frontier \ {current}

\* to_process after pop() of current and to_process.add(child) of each new child
NextFrontier(frontier, current, new) == (frontier \ {current}) \cup new

AllParentIdsFirstColumn(rows, pcols) ==
    {Cell(rows[i], "H1_PARENTID") : i \in DOMAIN rows} \ {NaN}

\* all_parent_ids: df[col].dropna().unique() of every parent column
AllParentIds(rows, pcols) ==
    UNION {{Cell(rows[i], c) : i \in DOMAIN rows} : c \in pcols} \ {NaN}

(***************************************************************************)
(* get_leaf_members, one step per loop iteration.                          *)
(***************************************************************************)
\* entry: the early returns and the set-up of the traversal
GlmEnter ==
    /\ pc = "call"
    /\ IF table.rows = <<>> \/ find_parent_columns(table) = {}
       THEN /\ ret' = table
            /\ pc' = "done"
            /\ UNCHANGED <<df, descendants, to_process>>
       ELSE IF Truthy(parent_filter)
            THEN /\ descendants' = {}
                 /\ to_process' = parent_filter.ids
                 /\ pc' = "bfs"
                 /\ UNCHANGED <<df, ret>>
            ELSE /\ pc' = "leaf"
                 /\ UNCHANGED <<df, descendants, to_process, ret>>
    /\ UNCHANGED <<table, parent_filter, run, first, filters, dateVars, genVars, restVars>>

\* one iteration of `while to_process`
BfsStep ==
    /\ pc = "bfs"
    /\ to_process # {}
    /\ \E current \in to_process :
         LET new == NewChildren(df.rows, find_parent_columns(df), current, descendants)
         IN /\ descendants' = descendants \cup new
            /\ to_process' = NextFrontier(to_process, current, new)
    /\ UNCHANGED <<table, parent_filter, df, ret, pc, run, first, filters, dateVars, genVars, restVars>>

\* the loop ends: df = df[df['ID'].isin(descendants)]
BfsExit ==
    /\ pc = "bfs"
    /\ to_process = {}
    /\ df' = [df EXCEPT !.rows =
                 SelectSeq(df.rows, LAMBDA r : r.ID \in descendants)]
    /\ pc' = "leaf"
    /\ UNCHANGED <<table, parent_filter, descendants, to_process, ret, run, first, filters, dateVars, genVars, restVars>>

\* leaf_mask = ~df['ID'].isin(all_parent_ids); return df[leaf_mask]
LeafStep ==
    /\ pc = "leaf"
    /\ LET parents == AllParentIds(df.rows, find_parent_columns(df))
       IN ret' = [df EXCEPT !.rows =
                     SelectSeq(df.rows, LAMBDA r : r.ID \notin parents)]
    /\ pc' = "done"
    /\ UNCHANGED <<table, parent_filter, df, descendants, to_process, run, first, filters, dateVars, genVars, restVars>>

\* get_leaf_members called again on the same table, the roots being the
\* descendant set the first call computed
Rerun ==
    /\ pc = "done"
    /\ run = 1
    /\ Truthy(parent_filter)
    /\ find_parent_columns(table) # {}
    /\ table.rows # <<>>
    /\ first' = descendants
    /\ parent_filter' = [kind |-> "list", ids |-> descendants]
    /\ df' = table
    /\ descendants' = {}
    /\ to_process' = {}
    /\ run' = 2
    /\ pc' = "call"
    /\ UNCHANGED <<table, ret, filters, dateVars, genVars, restVars>>

(***************************************************************************)
(* The inputs of SpecLeaf.                                                 *)
(***************************************************************************)
MaxRows == 2

IdIndex(x) == IF x = NaN THEN 0 ELSE CHOOSE i \in DOMAIN IdSeq : IdSeq[i] = x

LeafRows(pcols) ==
    [ID : IdVals,
     Description : {<<"d">>},
     H1_PARENTID : IF "H1_PARENTID" \in pcols THEN IdVals \cup {NaN} ELSE {NaN},
     H2_PARENTID : IF "H2_PARENTID" \in pcols THEN IdVals \cup {NaN} ELSE {NaN}]

\* member IDs are the key of a master-data export: the rows of a table have
\* distinct IDs; row order does not matter to get_leaf_members, so the rows
\* come in the order of IdSeq
LeafRowSeqs(pcols) ==
    UNION {{s \in [1..n -> LeafRows(pcols)] :
               \A i \in 1..(n - 1) : IdIndex(s[i].ID) < IdIndex(s[i + 1].ID)} :
           n \in 0..MaxRows}

LeafTables ==
    UNION {{[cols |-> {"ID", "Description"} \cup pcols, rows |-> s] :
               s \in LeafRowSeqs(pcols)} :
           pcols \in {{}, {"H1_PARENTID"}, ParentColNames}}

ParentFilters ==
    {[kind |-> "none", ids |-> {}], [kind |-> "list", ids |-> {}]}
    \cup {[kind |-> "str", ids |-> {x}] : x \in IdVals}
    \cup {[kind |-> "list", ids |-> S] : S \in {{"A"}, {"A", "B"}, {"C"}}}

InitLeaf ==
    /\ table \in LeafTables
    /\ parent_filter \in ParentFilters
    /\ df = table
    /\ descendants = {}
    /\ to_process = {}
    /\ ret = [cols |-> {}, rows |-> <<>>]
    /\ pc = "call"
    /\ run = 1
    /\ first = {}
    /\ filters = NoFilters
    /\ IdleDate
    /\ IdleGen
    /\ IdleRest

NextLeaf == GlmEnter \/ BfsStep \/ BfsExit \/ LeafStep \/ Rerun

SpecLeaf == InitLeaf /\ [][NextLeaf]_vars

\* the interpreter runs the loop of get_leaf_members to its end
FairSpecLeaf == SpecLeaf /\ WF_vars(NextLeaf)

(***************************************************************************)
(* apply_filters.                                                          *)
(***************************************************************************)
\* case=False: the case folding of the characters the model uses
Lower(c) ==
    CASE c = "A" -> "a"
      [] c = "B" -> "b"
      [] OTHER -> c

\* Series.str.contains(pattern, case=False, na=False) for a pattern of literal
\* characters: a NaN cell does not contain it, every other cell contains it
\* when the pattern occurs at some offset
ContainsCI(desc, pattern) ==
    /\ desc # DescNaN
    /\ \E k \in 0..(Len(desc) - Len(pattern)) :
          \A i \in 1..Len(pattern) : Lower(desc[k + i]) = Lower(pattern[i])

\* the loop over exclude_desc: df = df[~contains(pattern)] for each pattern
ExcludeByDescription(rows, patterns) ==
    SelectSeq(rows, LAMBDA r :
        \A p \in DOMAIN patterns : ~ContainsCI(r.Description, patterns[p]))

\* id_list.index(x): the first position of x (0-based in the code, the order is
\* what matters)
IndexIn(id_list, x) == CHOOSE i \in DOMAIN id_list :
    id_list[i] = x /\ \A j \in 1..(i - 1) : id_list[j] # x

Orderings(n) == {f \in [1..n -> 1..n] : \A i, j \in 1..n : f[i] = f[j] => i = j}

KeepOrder(rows, id_list) == {rows}

\* df.sort_values('_sort'): the default sort of pandas is not stable, rows of
\* equal key come out in any order
SortByIdList(rows, id_list) ==
    {[i \in DOMAIN rows |-> rows[f[i]]] : f \in
        {g \in Orderings(Len(rows)) :
            \A i \in 1..(Len(rows) - 1) :
                IndexIn(id_list, rows[g[i]].ID) <= IndexIn(id_list, rows[g[i + 1]].ID)}}

\* df[df['ID'].isin(id_list)]
RestrictToIdList(rows, id_list) ==
    SelectSeq(rows, LAMBDA r : \E i \in DOMAIN id_list : id_list[i] = r.ID)

\* apply_filters(df, filters): the tables it can return
apply_filters(t, f) ==
    IF t.rows = <<>> \/ f = NoFilters
    THEN {t}
    ELSE LET excluded ==
                 IF f.exclude_description # <<>> /\ "Description" \in t.cols
                 THEN ExcludeByDescription(t.rows, f.exclude_description)
                 ELSE t.rows
         IN IF f.id_list # <<>>
            THEN {[t EXCEPT !.rows = s] :
                     s \in SortByIdList(RestrictToIdList(excluded, f.id_list), f.id_list)}
            ELSE {[t EXCEPT !.rows = excluded]}

ApplyFilters ==
    /\ pc = "af_call"
    /\ ret' \in apply_filters(table, filters)
    /\ pc' = "af_done"
    /\ UNCHANGED <<table, filters, parent_filter, df, descendants, to_process, run, first, dateVars, genVars, restVars>>

(***************************************************************************)
(* The inputs of SpecFilter.                                               *)
(***************************************************************************)
MaxFilterRows == 3

MaxIdList == 2

FilterDescs == {<<"a", "B">>, DescNaN}

FilterRows(hasDesc) ==
    [ID : IdVals,
     Description : IF hasDesc THEN FilterDescs ELSE {DescNaN},
     H1_PARENTID : {NaN},
     H2_PARENTID : {NaN}]

FilterTables ==
    UNION {{[cols |-> IF hasDesc THEN {"ID", "Description"} ELSE {"ID"}, rows |-> s] :
               s \in UNION {[1..n -> FilterRows(hasDesc)] : n \in 0..MaxFilterRows}} :
           hasDesc \in BOOLEAN}

IdLists == UNION {[1..n -> IdVals] : n \in 0..MaxIdList}

ExcludeLists == {<<>>, <<<<"b">>>>, <<<<"x">>, <<"A", "b">>>>}

FilterSpecs == [exclude_description : ExcludeLists, id_list : IdLists]

InitFilter ==
    /\ table \in FilterTables
    /\ filters \in FilterSpecs
    /\ parent_filter = [kind |-> "none", ids |-> {}]
    /\ df = table
    /\ descendants = {}
    /\ to_process = {}
    /\ ret = [cols |-> {}, rows |-> <<>>]
    /\ pc = "af_call"
    /\ run = 1
    /\ first = {}
    /\ IdleDate
    /\ IdleGen
    /\ IdleRest

NextFilter == ApplyFilters

SpecFilter == InitFilter /\ [][NextFilter]_vars

(***************************************************************************)
(* load_date_range.  A YYYYMM token is its sequence of characters.         *)
(***************************************************************************)
DigitChars == <<"0", "1", "2", "3", "4", "5", "6", "7", "8", "9">>

DigitVal(c) == (CHOOSE i \in DOMAIN DigitChars : DigitChars[i] = c) - 1

\* whether int(s) succeeds: s is a non-empty string of digits
IsInt(s) == s # <<>> /\ \A i \in DOMAIN s : \E k \in DOMAIN DigitChars : DigitChars[k] = s[i]

\* int(s)
RECURSIVE ToInt(_)
ToInt(s) ==
    IF s = <<>> THEN 0
    ELSE ToInt(SubSeq(s, 1, Len(s) - 1)) * 10 + DigitVal(s[Len(s)])

\* str(n), n >= 0
RECURSIVE ToStr(_)
ToStr(n) ==
    IF n < 10 THEN <<DigitChars[n + 1]>>
    ELSE ToStr(n \div 10) \o <<DigitChars[(n % 10) + 1]>>

\* s[:4] and s[4:]
YearPart(s) == SubSeq(s, 1, IF Len(s) < 4 THEN Len(s) ELSE 4)

MonthPart(s) == SubSeq(s, 5, Len(s))

\* f"{year}{month:02d}"
FormatToken(y, m) == ToStr(y) \o (IF m < 10 THEN <<"0">> ELSE <<>>) \o ToStr(m)

\* the hard-coded default range 202501 .. 202512
DefaultYear == 2025

DefaultRange == [m \in 1..12 |-> FormatToken(DefaultYear, m)]

\* `month += 1; if month > 12: month = 1; year += 1`
NextMonthEarlyRollover(y, m) == IF m + 1 >= 12 THEN <<y + 1, 1>> ELSE <<y, m + 1>>

NextMonth(y, m) == IF m + 1 > 12 THEN <<y + 1, 1>> ELSE <<y, m + 1>>

\* the tuple comparison (year, month) <= (end_year, end_m)
TupleLeq(y1, m1, y2, m2) == y1 < y2 \/ (y1 = y2 /\ m1 <= m2)

ManualIgnored == FALSE

\* `if manual_range.get("start_month") and manual_range.get("end_month")`
ManualSet == manual_range.start_month # <<>> /\ manual_range.end_month # <<>>

ParsesOk(start, end) ==
    /\ IsInt(YearPart(start)) /\ IsInt(MonthPart(start))
    /\ IsInt(YearPart(end)) /\ IsInt(MonthPart(end))

StartLoop(start, end, where) ==
    /\ year' = ToInt(YearPart(start))
    /\ month' = ToInt(MonthPart(start))
    /\ end_year' = ToInt(YearPart(end))
    /\ end_m' = ToInt(MonthPart(end))
    /\ date_range' = <<>>
    /\ dpc' = where

\* the manual range is set and parses: the expansion loop starts
DrManualStart ==
    /\ dpc = "call"
    /\ ManualSet
    /\ ParsesOk(manual_range.start_month, manual_range.end_month)
    /\ StartLoop(manual_range.start_month, manual_range.end_month, "manual_loop")
    /\ dr_steps' = dr_steps \o <<"manual">>
    /\ UNCHANGED <<manual_range, version_file, leafVars, filters, genVars, restVars>>

\* the manual range is set and int() raises ValueError: nothing catches it here
DrManualParseError ==
    /\ dpc = "call"
    /\ ManualSet
    /\ ~ParsesOk(manual_range.start_month, manual_range.end_month)
    /\ dpc' = "raised"
    /\ dr_steps' = dr_steps \o <<"manual">>
    /\ UNCHANGED <<manual_range, version_file, date_range, year, month, end_year, end_m,
                   leafVars, filters, genVars, restVars>>

\* one iteration of `while (year, month) <= (end_year, end_m)`, either branch
DrLoopStep ==
    /\ dpc \in {"manual_loop", "version_loop"}
    /\ TupleLeq(year, month, end_year, end_m)
    /\ date_range' = Append(date_range, FormatToken(year, month))
    /\ year' = NextMonth(year, month)[1]
    /\ month' = NextMonth(year, month)[2]
    /\ UNCHANGED dr_steps
    /\ UNCHANGED <<manual_range, version_file, end_year, end_m, dpc, leafVars, filters, genVars, restVars>>

\* the manual loop ends: print(date_range[0], date_range[-1]) and return; the
\* print raises IndexError when the range is empty
DrManualEnd ==
    /\ dpc = "manual_loop"
    /\ ~TupleLeq(year, month, end_year, end_m)
    /\ dpc' = IF date_range = <<>> THEN "raised" ELSE "returned"
    /\ UNCHANGED dr_steps
    /\ UNCHANGED <<manual_range, version_file, date_range, year, month, end_year, end_m,
                   leafVars, filters, genVars, restVars>>

\* no manual range, and the version file is missing, has no ID column, has no
\* row of the version or lacks the start or end column: the default range
DrVersionFallback ==
    /\ dpc = "call"
    /\ ~ManualSet
    /\ version_file.state \in {"missing", "no_id_column", "no_row", "no_columns"}
    /\ date_range' = DefaultRange
    /\ dpc' = "returned"
    /\ dr_steps' = dr_steps \o <<"version_file", "default">>
    /\ UNCHANGED <<manual_range, version_file, year, month, end_year, end_m,
                   leafVars, filters, genVars, restVars>>

\* no manual range and load_csv raises CSVError: load_csv is called outside
\* the try block
DrVersionCsvError ==
    /\ dpc = "call"
    /\ ~ManualSet
    /\ version_file.state = "csv_error"
    /\ dpc' = "raised"
    /\ dr_steps' = dr_steps \o <<"version_file">>
    /\ UNCHANGED <<manual_range, version_file, date_range, year, month, end_year, end_m,
                   leafVars, filters, genVars, restVars>>

\* the version row gives start and end and they parse: the loop starts
DrVersionStart ==
    /\ dpc = "call"
    /\ ~ManualSet
    /\ version_file.state = "ok"
    /\ ParsesOk(version_file.start, version_file.end)
    /\ StartLoop(version_file.start, version_file.end, "version_loop")
    /\ dr_steps' = dr_steps \o <<"version_file">>
    /\ UNCHANGED <<manual_range, version_file, leafVars, filters, genVars, restVars>>

\* int() raises inside the try block: the default range
DrVersionParseError ==
    /\ dpc = "call"
    /\ ~ManualSet
    /\ version_file.state = "ok"
    /\ ~ParsesOk(version_file.start, version_file.end)
    /\ date_range' = DefaultRange
    /\ dpc' = "returned"
    /\ dr_steps' = dr_steps \o <<"version_file", "default">>
    /\ UNCHANGED <<manual_range, version_file, year, month, end_year, end_m,
                   leafVars, filters, genVars, restVars>>

\* the version loop ends: the print raises IndexError on an empty range, the
\* except clause then sets the default range
DrVersionEnd ==
    /\ dpc = "version_loop"
    /\ ~TupleLeq(year, month, end_year, end_m)
    /\ date_range' = IF date_range = <<>> THEN DefaultRange ELSE date_range
    /\ dpc' = "returned"
    /\ dr_steps' = dr_steps \o (IF date_range = <<>> THEN <<"default">> ELSE <<>>)
    /\ UNCHANGED <<manual_range, version_file, year, month, end_year, end_m,
                   leafVars, filters, genVars, restVars>>

\* generate, around its call of load_date_range: an exception becomes the
\* warning "Date range error", an empty range the warning "No date range
\* loaded"; nothing else is added to self.warnings
DrGenerate ==
    /\ dpc \in {"returned", "raised"}
    /\ self_warnings' =
          IF dpc = "raised"
          THEN Append(self_warnings, [about |-> "date_range", text |-> "Date range error"])
          ELSE IF date_range = <<>>
          THEN Append(self_warnings, [about |-> "date_range", text |-> "No date range loaded"])
          ELSE self_warnings
    /\ dpc' = IF dpc = "raised" THEN "reported_error" ELSE "reported"
    /\ UNCHANGED dr_steps
    /\ UNCHANGED <<manual_range, version_file, date_range, year, month, end_year, end_m,
                   templates_config, template_name, templates, tpos, results, self_errors,
                   dimension_data, dimension_errors, cpos, loads, written, result, gpc,
                   leafVars, filters, restVars>>

(***************************************************************************)
(* The inputs of SpecDate.                                                 *)
(***************************************************************************)
NumYears == 2

Years == DefaultYear..(DefaultYear + NumYears - 1)

ValidTokens == {FormatToken(y, m) : y \in Years, m \in 1..12}

\* a token whose month part is not a number
BadToken == <<"2", "0", "2", "5", "x", "1">>

\* a token whose month part is no month
NoMonthToken == <<"2", "0", "2", "5", "1", "3">>

DateInputs ==
    {<<s, e>> \in ValidTokens \X ValidTokens : TRUE}
    \cup {<<BadToken, FormatToken(DefaultYear, 1)>>, <<NoMonthToken, NoMonthToken>>}

\* a version row with a range of its own
SomeVersionFile ==
    [state |-> "ok", start |-> FormatToken(DefaultYear, 1), end |-> FormatToken(DefaultYear, 2)]

NoManual == [start_month |-> <<>>, end_month |-> <<>>]

NoVersionFile == [state |-> "missing", start |-> <<>>, end |-> <<>>]

InitDate ==
    /\ \/ /\ \E p \in DateInputs :
               manual_range = [start_month |-> p[1], end_month |-> p[2]]
          /\ version_file \in {NoVersionFile, SomeVersionFile}
       \/ /\ manual_range \in {NoManual,
                               [start_month |-> FormatToken(DefaultYear, 3), end_month |-> <<>>],
                               [start_month |-> <<>>, end_month |-> FormatToken(DefaultYear, 3)]}
          /\ \/ \E p \in DateInputs :
                  version_file = [state |-> "ok", start |-> p[1], end |-> p[2]]
             \/ \E st \in {"missing", "no_id_column", "no_row", "no_columns", "csv_error"} :
                  version_file = [state |-> st, start |-> <<>>, end |-> <<>>]
    /\ date_range = <<>>
    /\ year = 0
    /\ month = 0
    /\ end_year = 0
    /\ end_m = 0
    /\ dpc = "call"
    /\ dr_steps = <<>>
    /\ IdleLeaf
    /\ IdleGen
    /\ IdleRest

NextDate ==
    \/ DrManualStart
    \/ DrManualParseError
    \/ DrLoopStep
    \/ DrManualEnd
    \/ DrVersionFallback
    \/ DrVersionCsvError
    \/ DrVersionStart
    \/ DrVersionParseError
    \/ DrVersionEnd
    \/ DrGenerate

SpecDate == InitDate /\ [][NextDate]_vars

(***************************************************************************)
(* generate and create_excel.                                              *)
(*                                                                         *)
(* A dimension is described by what decides the path load_dimension takes  *)
(* for it: whether sac_name is set, whether extract_column is set, what    *)
(* the source file is (missing under all three names, unreadable so that   *)
(* load_csv raises CSVError, or ok), whether every exclude_description     *)
(* pattern is a regular expression str.contains can compile, and how many  *)
(* members the pipeline leaves.                                            *)
(***************************************************************************)
DimensionKinds ==
    {"Good", "Empty", "NoFile", "NoFileExtract", "Corrupt", "NoSacName", "ExtractFail",
     "BadPattern"}

\* dimensions_config["dimensions"] as the dict create_excel builds from it: a
\* dimension of every kind, named after its kind
dimensions ==
    [k \in DimensionKinds |->
        [name |-> k,
         sac_name |-> k # "NoSacName",
         extract_column |-> k \in {"ExtractFail", "NoFileExtract"},
         csv |-> CASE k \in {"NoFile", "NoFileExtract"} -> "missing"
                   [] k \in {"Corrupt", "ExtractFail"} -> "unreadable"
                   [] OTHER -> "ok",
         patterns_ok |-> k # "BadPattern",
         members |-> IF k = "Empty" THEN 0 ELSE 1]]

\* a column name that is no dimension
Undefined == "Undefined"

\* dimensions.get(col, {}): the empty dict has no sac_name
DimGet(col) ==
    IF col \in DOMAIN dimensions THEN dimensions[col]
    ELSE [name |-> "unknown", sac_name |-> FALSE, extract_column |-> FALSE,
          csv |-> "missing", patterns_ok |-> TRUE, members |-> 0]

Returned(n, ws, es) ==
    [outcome |-> "return", exc |-> "none", members |-> n, warnings |-> ws, errors |-> es]

Raised(e) ==
    [outcome |-> "raise", exc |-> e, members |-> 0, warnings |-> <<>>, errors |-> <<>>]

OnMissingFileRaise(d) == Raised("CSVError")

\* find_csv_file found nothing: a warning and an empty (ID, Description) table
OnMissingFile(d) == Returned(0, <<[about |-> d.name, text |-> "CSV file not found"]>>, <<>>)

\* load_dimension(dim_config): what it returns or raises, and what it appends
\* to self.warnings and self.errors
load_dimension(d) ==
    IF ~d.sac_name THEN Raised("DimensionError")
    ELSE IF d.extract_column
    THEN \* extract_column_values; every exception becomes a DimensionError
         CASE d.csv = "missing" -> Returned(0, <<>>, <<>>)
           [] d.csv = "unreadable" -> Raised("DimensionError")
           [] OTHER -> Returned(d.members, <<>>, <<>>)
    ELSE IF d.csv = "missing" THEN OnMissingFile(d)
    ELSE IF d.csv = "unreadable"
    THEN Returned(0, <<>>, <<[about |-> d.name, text |-> "CSVError"]>>)
    ELSE IF ~d.patterns_ok
    THEN \* apply_filters: str.contains raises re.error, nothing catches it here
         Raised("re.error")
    ELSE IF d.members = 0
    THEN Returned(0, <<[about |-> d.name, text |-> "0 members after filtering"]>>, <<>>)
    ELSE Returned(d.members, <<>>, <<>>)

Template == templates[tpos]

Columns == Template.columns

\* generate(template_name): reset of errors and warnings, selection of the
\* templates, the two early returns
GenEnter ==
    /\ gpc = "call"
    /\ self_errors' = <<>>
    /\ self_warnings' = <<>>
    /\ LET selected ==
               IF template_name # 0
               THEN SelectSeq(templates_config, LAMBDA x : x.name = template_name)
               ELSE templates_config
       IN /\ templates' = selected
          /\ IF selected = <<>>
             THEN /\ result' = [status |-> "ERROR", data |-> <<>>,
                                errors |-> <<"not found">>, warnings |-> <<>>]
                  /\ gpc' = "done"
             ELSE /\ gpc' = "date"
                  /\ UNCHANGED result
    /\ UNCHANGED <<templates_config, template_name, tpos, results, dimension_data,
                   dimension_errors, cpos, loads, written, leafVars, filters, dateVars, restVars>>

\* the try block around load_date_range: it returns, or it raises and the
\* exception becomes a warning
GenDate ==
    /\ gpc = "date"
    /\ \E raised \in BOOLEAN :
          self_warnings' = IF raised
                           THEN Append(self_warnings, [about |-> "date_range", text |-> "Date range error"])
                           ELSE self_warnings
    /\ results' = NoResults
    /\ tpos' = 0
    /\ gpc' = "next"
    /\ UNCHANGED <<templates_config, template_name, templates, self_errors, dimension_data,
                   dimension_errors, cpos, loads, written, result, leafVars, filters, dateVars, restVars>>

StopAtFailure(i, res) == res.failed = <<>> /\ i < Len(templates)

\* whether `for template in templates` has a next template after position i
HasNext(i, res) == i < Len(templates)

\* the loop takes the next template: self.dimension_data = {} and the call of
\* create_excel up to the point where the overrides are applied
GenNextTemplate ==
    /\ gpc = "next"
    /\ HasNext(tpos, results)
    /\ tpos' = tpos + 1
    /\ dimension_data' = <<>>
    /\ dimension_errors' = <<>>
    /\ cpos' = 0
    /\ gpc' = "ce_validate"
    /\ UNCHANGED <<templates_config, template_name, templates, results, self_warnings,
                   self_errors, loads, written, result, leafVars, filters, dateVars, restVars>>

\* an entry of results["failed"]: the name, and of the error message and its
\* details the exception class, what raised it and for which column
Failure(type, cause) ==
    [name |-> Template.name, error |-> type, cause |-> cause,
     at |-> IF cause = "load_dimension" THEN Columns[cpos] ELSE ""]

\* an exception leaves create_excel: generate records the template as failed
RecordFailure(type, cause) ==
    /\ results' = [results EXCEPT !.failed = Append(@, Failure(type, cause))]
    /\ gpc' = "next"

ValidateOnlyNonEmpty(cols) == IF cols = <<>> THEN "no columns" ELSE "ok"

\* the two checks of create_excel on the columns of the template
Validate(cols) ==
    IF cols = <<>> THEN "no columns"
    ELSE IF \E i \in DOMAIN cols : cols[i] \notin DOMAIN dimensions
    THEN "undefined dimensions"
    ELSE "ok"

\* create_excel raises TemplateError
CeTemplateError ==
    /\ gpc = "ce_validate"
    /\ Validate(Columns) # "ok"
    /\ RecordFailure("TemplateError", Validate(Columns))
    /\ UNCHANGED <<templates_config, template_name, templates, tpos, self_warnings,
                   self_errors, dimension_data, dimension_errors, cpos, loads, written,
                   result, leafVars, filters, dateVars, restVars>>

CeValidateOk ==
    /\ gpc = "ce_validate"
    /\ Validate(Columns) = "ok"
    /\ gpc' = "ce_load"
    /\ cpos' = 1
    /\ UNCHANGED <<templates_config, template_name, templates, tpos, results, self_warnings,
                   self_errors, dimension_data, dimension_errors, loads, written, result,
                   leafVars, filters, dateVars, restVars>>

PutNothing(f, k, v) == f

\* self.dimension_data[k] = v
Put(f, k, v) == [x \in DOMAIN f \cup {k} |-> IF x = k THEN v ELSE f[x]]

Col == Columns[cpos]

\* `for col in columns`: the column is in self.dimension_data already
CeLoadCached ==
    /\ gpc = "ce_load"
    /\ cpos <= Len(Columns)
    /\ Col \in DOMAIN dimension_data
    /\ cpos' = cpos + 1
    /\ UNCHANGED <<templates_config, template_name, templates, tpos, results, self_warnings,
                   self_errors, dimension_data, dimension_errors, loads, written, result,
                   gpc, leafVars, filters, dateVars, restVars>>

\* load_dimension returns: the dataset is stored, zero members are noted
CeLoadReturns ==
    /\ gpc = "ce_load"
    /\ cpos <= Len(Columns)
    /\ Col \notin DOMAIN dimension_data
    /\ LET r == load_dimension(DimGet(Col))
       IN /\ r.outcome = "return"
          /\ dimension_data' = Put(dimension_data, Col, r.members)
          /\ self_warnings' = self_warnings \o r.warnings
          /\ self_errors' = self_errors \o r.errors
          /\ dimension_errors' =
                IF r.members = 0
                THEN Append(dimension_errors, [about |-> Col, text |-> "0 members"])
                ELSE dimension_errors
    /\ loads' = Append(loads, <<tpos, Col>>)
    /\ cpos' = cpos + 1
    /\ UNCHANGED <<templates_config, template_name, templates, tpos, results, written, result,
                   gpc, leafVars, filters, dateVars, restVars>>

\* load_dimension raises DimensionError: `except DimensionError` stores an
\* empty dataset and notes the error
CeLoadDimensionError ==
    /\ gpc = "ce_load"
    /\ cpos <= Len(Columns)
    /\ Col \notin DOMAIN dimension_data
    /\ LET r == load_dimension(DimGet(Col))
       IN /\ r.outcome = "raise"
          /\ r.exc = "DimensionError"
    /\ dimension_data' = Put(dimension_data, Col, 0)
    /\ dimension_errors' = Append(dimension_errors, [about |-> Col, text |-> "DimensionError"])
    /\ loads' = Append(loads, <<tpos, Col>>)
    /\ cpos' = cpos + 1
    /\ UNCHANGED <<templates_config, template_name, templates, tpos, results, self_warnings,
                   self_errors, written, result, gpc, leafVars, filters, dateVars, restVars>>

\* load_dimension raises something else: a SACGeneratorError passes through
\* create_excel as it is, any other exception as an ExcelGenerationError
CeLoadOtherError ==
    /\ gpc = "ce_load"
    /\ cpos <= Len(Columns)
    /\ Col \notin DOMAIN dimension_data
    /\ LET r == load_dimension(DimGet(Col))
       IN /\ r.outcome = "raise"
          /\ r.exc # "DimensionError"
          /\ RecordFailure(IF r.exc = "CSVError" THEN "CSVError" ELSE "ExcelGenerationError",
                           "load_dimension")
    /\ loads' = Append(loads, <<tpos, Col>>)
    /\ UNCHANGED <<templates_config, template_name, templates, tpos, self_warnings,
                   self_errors, dimension_data, dimension_errors, cpos, written, result,
                   leafVars, filters, dateVars, restVars>>

\* the sheets and the validation are set up; whatever they raise becomes an
\* ExcelGenerationError
CeBuild ==
    /\ gpc = "ce_load"
    /\ cpos > Len(Columns)
    /\ \E raised \in BOOLEAN :
          IF raised
          THEN RecordFailure("ExcelGenerationError", "build") /\ UNCHANGED cpos
          ELSE gpc' = "ce_save" /\ cpos' = 0 /\ UNCHANGED results
    /\ UNCHANGED <<templates_config, template_name, templates, tpos, self_warnings,
                   self_errors, dimension_data, dimension_errors, loads, written, result,
                   leafVars, filters, dateVars, restVars>>

\* wb.save raises PermissionError or another exception
CeSaveFails ==
    /\ gpc = "ce_save"
    /\ RecordFailure("ExcelGenerationError", "save")
    /\ UNCHANGED <<templates_config, template_name, templates, tpos, self_warnings,
                   self_errors, dimension_data, dimension_errors, cpos, loads, written,
                   result, leafVars, filters, dateVars, restVars>>

\* OperationResult.ok: WARNING when there are warnings
OkStatus(ws) == IF ws # <<>> THEN "WARNING" ELSE "SUCCESS"

\* OperationResult.success
Success(r) == r.status \in {"SUCCESS", "WARNING"}

\* wb.save succeeds: create_excel returns OperationResult.ok and generate
\* records the template as a success
CeSaveOk ==
    /\ gpc = "ce_save"
    /\ written' = written \cup {Template.name}
    /\ results' = [results EXCEPT
                      !.success = Append(@, [name |-> Template.name,
                                             status |-> OkStatus(dimension_errors),
                                             warnings |-> dimension_errors]),
                      !.warnings = @ \o dimension_errors]
    /\ gpc' = "next"
    /\ UNCHANGED <<templates_config, template_name, templates, tpos, self_warnings,
                   self_errors, dimension_data, dimension_errors, cpos, loads, result,
                   leafVars, filters, dateVars, restVars>>

SummaryAlwaysOk(res, ws) ==
    [status |-> OkStatus(res.warnings \o ws), data |-> res,
     errors |-> <<>>, warnings |-> res.warnings \o ws]

\* the summary of generate
Summary(res, ws) ==
    IF Len(res.failed) > 0
    THEN [status |-> IF Len(res.success) > 0 THEN "WARNING" ELSE "ERROR",
          data |-> res,
          errors |-> [i \in DOMAIN res.failed |-> res.failed[i].error],
          warnings |-> res.warnings \o ws]
    ELSE [status |-> OkStatus(res.warnings \o ws), data |-> res,
          errors |-> <<>>, warnings |-> res.warnings \o ws]

\* the loop is over: generate returns
GenSummary ==
    /\ gpc = "next"
    /\ ~HasNext(tpos, results)
    /\ result' = Summary(results, self_warnings)
    /\ gpc' = "done"
    /\ UNCHANGED <<templates_config, template_name, templates, tpos, results, self_warnings,
                   self_errors, dimension_data, dimension_errors, cpos, loads, written,
                   leafVars, filters, dateVars, restVars>>

(***************************************************************************)
(* The inputs of SpecGen.                                                  *)
(***************************************************************************)
MaxTemplates == 2

MaxTotalCols == 2

ColumnNames == DimensionKinds \cup {Undefined}

ColumnLists(n) == UNION {[1..k -> ColumnNames] : k \in 0..n}

\* the lists of at most n templates with at most k columns in all; the name of
\* a template is its position in templates_config
RECURSIVE TemplateLists(_, _)
TemplateLists(n, k) ==
    IF n = 0 THEN {<<>>}
    ELSE {<<>>} \cup
         UNION {{<<cols>> \o rest : rest \in TemplateLists(n - 1, k - Len(cols))} :
                   cols \in ColumnLists(k)}

Named(list) == [i \in DOMAIN list |-> [name |-> i, columns |-> list[i]]]

InitGen ==
    /\ templates_config \in {Named(l) : l \in TemplateLists(MaxTemplates, MaxTotalCols)}
    /\ template_name \in {0, 1}
    /\ templates = <<>>
    /\ tpos = 0
    /\ results = NoResults
    /\ self_warnings \in {<<>>, <<[about |-> "earlier run", text |-> "warning"]>>}
    /\ self_errors = <<>>
    /\ dimension_data = <<>>
    /\ dimension_errors = <<>>
    /\ cpos = 0
    /\ loads = <<>>
    /\ written = {}
    /\ result = NoResult
    /\ gpc = "call"
    /\ IdleLeaf
    /\ IdleDate
    /\ IdleRest

NextGen ==
    \/ GenEnter
    \/ GenDate
    \/ GenNextTemplate
    \/ CeTemplateError
    \/ CeValidateOk
    \/ CeLoadCached
    \/ CeLoadReturns
    \/ CeLoadDimensionError
    \/ CeLoadOtherError
    \/ CeBuild
    \/ CeSaveFails
    \/ CeSaveOk
    \/ GenSummary

SpecGen == InitGen /\ [][NextGen]_vars

(***************************************************************************)
(* load_dimension, load_csv and extract_column_values.                     *)
(*                                                                         *)
(* A table read from a file also has `columns`, the column names in file   *)
(* order; a row is a function from the column names of its table to cells. *)
(***************************************************************************)
Unassigned == <<"U", "n", "a", "s", "s", "i", "g", "n", "e", "d">>

NotInHierarchy ==
    <<"N", "o", "t", " ", "I", "n", " ", "H", "i", "e", "r", "a", "r", "c", "h", "y">>

RemoveUnassignedAndHead(t) ==
    LET kept == SelectSeq(t.rows, LAMBDA r : r.ID \notin {"#", ""})
    IN [t EXCEPT !.rows = IF kept = <<>> THEN kept ELSE Tail(kept)]

\* remove_unassigned(df): ID not in ['#', ''] and, with a Description column,
\* Description not in ['Unassigned', 'Not In Hierarchy', '']
remove_unassigned(t) ==
    IF t.rows = <<>> THEN t
    ELSE [t EXCEPT !.rows = SelectSeq(t.rows, LAMBDA r :
             /\ r.ID \notin {"#", ""}
             /\ "Description" \in t.cols =>
                   r.Description \notin {Unassigned, NotInHierarchy, <<>>})]

\* the while loop of get_leaf_members run to its end: descendants
RECURSIVE Traverse(_, _, _, _)
Traverse(rows, pcols, desc, frontier) ==
    IF frontier = {} THEN desc
    ELSE LET current == CHOOSE x \in frontier : TRUE
             new == NewChildren(rows, pcols, current, desc)
         IN Traverse(rows, pcols, desc \cup new, NextFrontier(frontier, current, new))

\* get_leaf_members(df, parent_filter) as a function of its arguments
get_leaf_members(t, pf) ==
    IF t.rows = <<>> \/ find_parent_columns(t) = {} THEN t
    ELSE LET pcols == find_parent_columns(t)
             sub == IF Truthy(pf)
                    THEN SelectSeq(t.rows, LAMBDA r :
                             r.ID \in Traverse(t.rows, pcols, {}, pf.ids))
                    ELSE t.rows
             parents == AllParentIds(sub, pcols)
         IN [t EXCEPT !.rows = SelectSeq(sub, LAMBDA r : r.ID \notin parents)]

\* 'ID' in c.upper(), for the column names of the model
ContainsID(c) == c \in {"ID", "Member_ID", "H1_PARENTID", "H2_PARENTID"}

\* id_cols = [c for c in df.columns if 'ID' in c.upper() or c == df.columns[0]]
IdCols(columns) ==
    SelectSeq(columns, LAMBDA c : ContainsID(c) \/ c = columns[1])

\* df.rename(columns={original_col: 'ID'})
Rename(t, col) ==
    [columns |-> [i \in DOMAIN t.columns |->
                     IF t.columns[i] = col THEN "ID" ELSE t.columns[i]],
     cols |-> (t.cols \ {col}) \cup {"ID"},
     rows |-> [i \in DOMAIN t.rows |->
                  [c \in (DOMAIN t.rows[i] \ {col}) \cup {"ID"} |->
                      IF c = "ID" THEN t.rows[i][col] ELSE t.rows[i][c]]]]

\* the second pass of the allow-list in load_dimension: the tables it can give
IdListAgain(t, id_list) ==
    IF id_list = <<>> THEN {t}
    ELSE LET kept == RestrictToIdList(t.rows, id_list)
         IN IF kept = <<>> THEN {[t EXCEPT !.rows = kept]}
            ELSE {[t EXCEPT !.rows = s] : s \in SortByIdList(kept, id_list)}

ProjectKeepNull(t) ==
    [columns |-> <<"ID", "Description">>,
     cols |-> {"ID", "Description"},
     rows |-> [i \in DOMAIN t.rows |->
                  [ID |-> t.rows[i].ID,
                   Description |-> IF "Description" \in t.cols
                                   THEN t.rows[i].Description ELSE t.rows[i].ID]]]

\* the (ID, Description) projection and dropna(subset=['ID'])
Project(t) ==
    LET two == [i \in DOMAIN t.rows |->
                   [ID |-> t.rows[i].ID,
                    Description |-> IF "Description" \in t.cols
                                    THEN t.rows[i].Description ELSE t.rows[i].ID]]
    IN [columns |-> <<"ID", "Description">>,
        cols |-> {"ID", "Description"},
        rows |-> SelectSeq(two, LAMBDA r : r.ID # NaN)]

\* pd.DataFrame(columns=['ID', 'Description'])
EmptyFrame == [columns |-> <<"ID", "Description">>, cols |-> {"ID", "Description"}, rows |-> <<>>]

(***************************************************************************)
(* extract_column_values.  The cells of the extracted column are sequences *)
(* of characters.                                                          *)
(***************************************************************************)
\* the code points of the characters the model uses
CharCode(c) ==
    CASE c = " " -> 32
      [] c = "#" -> 35
      [] c = "." -> 46
      [] c \in {DigitChars[i] : i \in DOMAIN DigitChars} -> 48 + DigitVal(c)
      [] c = "x" -> 120

\* the order of str: s < t
RECURSIVE StrLess(_, _)
StrLess(s, t) ==
    IF t = <<>> THEN FALSE
    ELSE IF s = <<>> THEN TRUE
    ELSE IF CharCode(s[1]) # CharCode(t[1]) THEN CharCode(s[1]) < CharCode(t[1])
    ELSE StrLess(Tail(s), Tail(t))

\* str.strip() of blanks
RECURSIVE Strip(_)
Strip(s) ==
    IF s = <<>> THEN s
    ELSE IF s[1] = " " THEN Strip(Tail(s))
    ELSE IF s[Len(s)] = " " THEN Strip(SubSeq(s, 1, Len(s) - 1))
    ELSE s

\* Series.unique(): the values in the order of their first occurrence
RECURSIVE Unique(_)
Unique(s) ==
    IF s = <<>> THEN <<>>
    ELSE LET init == Unique(SubSeq(s, 1, Len(s) - 1))
             last == s[Len(s)]
         IN IF \E i \in DOMAIN init : init[i] = last THEN init ELSE Append(init, last)

\* whether float(x) succeeds: digits with at most one point and at least one
\* digit, blanks around them allowed
IsFloat(x) ==
    LET s == Strip(x)
        points == {i \in DOMAIN s : s[i] = "."}
    IN /\ Cardinality(points) <= 1
       /\ \E i \in DOMAIN s : s[i] # "."
       /\ \A i \in DOMAIN s : s[i] = "." \/ IsInt(<<s[i]>>)

\* int(float(x)): the digits before the point
IntOfFloat(x) ==
    LET s == Strip(x)
        points == {i \in DOMAIN s : s[i] = "."}
        whole == IF points = {} THEN s
                 ELSE SubSeq(s, 1, (CHOOSE i \in points : TRUE) - 1)
    IN ToInt(whole)

\* the order sorted() uses: by int(float(x)) for the numeric sort, by str
\* otherwise
KeyLess(x, y, numeric) ==
    IF numeric THEN IntOfFloat(x) < IntOfFloat(y) ELSE StrLess(x, y)

\* sorted(values, key=...) is stable: each value goes after the last one whose
\* key is not greater
RECURSIVE Sorted(_, _)
Sorted(s, numeric) ==
    IF s = <<>> THEN <<>>
    ELSE LET init == Sorted(SubSeq(s, 1, Len(s) - 1), numeric)
             x == s[Len(s)]
             k == Cardinality({i \in DOMAIN init : ~KeyLess(x, init[i], numeric)})
         IN SubSeq(init, 1, k) \o <<x>> \o SubSeq(init, k + 1, Len(init))

\* the values extract_column_values keeps: not NaN, truthy, not blank, no
\* sentinel
Kept(v) ==
    /\ v # DescNaN
    /\ v # <<>>
    /\ Strip(v) # <<>>
    /\ v \notin {<<"#">>, NotInHierarchy}

LexicalOnly(values, numeric_sort) == Sorted(values, FALSE)

\* the sort of extract_column_values: numeric when asked and every value
\* parses, lexical otherwise
SortValues(values, numeric_sort) ==
    IF numeric_sort /\ \A i \in DOMAIN values : IsFloat(values[i])
    THEN Sorted(values, TRUE)
    ELSE Sorted(values, FALSE)

\* extract_column_values once the file is read: the (ID, Description) frame
ExtractFrame(t, column, numeric_sort) ==
    IF column \notin t.cols THEN EmptyFrame
    ELSE LET cells == [i \in DOMAIN t.rows |-> t.rows[i][column]]
             values == SelectSeq(Unique(SelectSeq(cells, LAMBDA v : v # DescNaN)), Kept)
             sorted == SortValues(values, numeric_sort)
         IN [EmptyFrame EXCEPT !.rows =
                [i \in DOMAIN sorted |-> [ID |-> sorted[i], Description |-> sorted[i]]]]

(***************************************************************************)
(* load_dimension, one step per stage.                                     *)
(***************************************************************************)
genOther == <<templates_config, template_name, templates, tpos, results, dimension_data,
              dimension_errors, cpos, loads, written, result, gpc>>

loadOther == <<leafVars, filters, dateVars, genOther, sheetVars, dimensions_json, moreVars>>

\* what a call returns or raises
Frame(t) == [outcome |-> "frame", exc |-> "none", table |-> t]

None == [outcome |-> "none", exc |-> "none", table |-> NoTable]

Raise(e) == [outcome |-> "raise", exc |-> e, table |-> NoTable]

Note(text) == [about |-> dim_config.name, text |-> text]

\* load_csv(csv_path) for what the path holds at the time of the call
load_csv(file) ==
    CASE file.state = "absent" -> None
      [] file.state \in {"empty", "unparsable"} -> Raise("CSVError")
      [] OTHER -> Frame(file.table)

\* a stage has produced out
Stage(name, out) == stages' = Append(stages, [stage |-> name, out |-> out])

\* the stage has produced the new df
Next_df(name, t, where) ==
    /\ ld_df' = t
    /\ Stage(name, t)
    /\ ld_pc' = where

\* load_dimension returns or raises r
Finish(r) ==
    /\ ld_result' = r
    /\ ld_pc' = "returned"

\* entry: no sac_name raises DimensionError, extract_column selects the
\* extraction mode
LdEnter ==
    /\ ld_pc = "call"
    /\ IF ~dim_config.sac_name
       THEN Finish(Raise("DimensionError"))
       ELSE /\ ld_pc' = IF dim_config.extract_column # "" THEN "extract" ELSE "find"
            /\ UNCHANGED ld_result
    /\ UNCHANGED <<dim_config, csv_file, ld_df, original_col, stages, self_warnings,
                   self_errors, loadOther>>

\* find_csv_file, in either mode: nothing found gives the empty frame, with a
\* warning in the pipeline mode only
LdFind ==
    /\ ld_pc \in {"find", "extract"}
    /\ IF csv_file.state = "absent"
       THEN /\ Finish(Frame(EmptyFrame))
            /\ self_warnings' = IF ld_pc = "find"
                                THEN Append(self_warnings, Note("CSV file not found"))
                                ELSE self_warnings
       ELSE /\ ld_pc' = IF ld_pc = "find" THEN "load" ELSE "extract_load"
            /\ UNCHANGED <<ld_result, self_warnings>>
    /\ UNCHANGED <<dim_config, csv_file, ld_df, original_col, stages, self_errors, loadOther>>

\* the file is removed from the downloads directory between find_csv_file and
\* load_csv
RemoveFile ==
    /\ ld_pc \in {"load", "extract_load"}
    /\ csv_file.state # "absent"
    /\ csv_file' = [state |-> "absent", table |-> NoTable]
    /\ UNCHANGED <<dim_config, ld_df, original_col, stages, ld_result, ld_pc, self_warnings,
                   self_errors, loadOther>>

\* the pipeline mode calls load_csv: CSVError is noted in self.errors, None in
\* self.warnings, both give the empty frame
LdLoadCsv ==
    /\ ld_pc = "load"
    /\ LET r == load_csv(csv_file)
       IN /\ Stage("load_csv", r)
          /\ CASE r.outcome = "raise" ->
                    /\ self_errors' = Append(self_errors, Note(r.exc))
                    /\ Finish(Frame(EmptyFrame))
                    /\ UNCHANGED <<ld_df, self_warnings>>
               [] r.outcome = "none" ->
                    /\ self_warnings' = Append(self_warnings, Note("Could not load CSV"))
                    /\ Finish(Frame(EmptyFrame))
                    /\ UNCHANGED <<ld_df, self_errors>>
               [] OTHER ->
                    /\ ld_df' = r.table
                    /\ ld_pc' = "id_check"
                    /\ UNCHANGED <<ld_result, self_warnings, self_errors>>
    /\ UNCHANGED <<dim_config, csv_file, original_col, loadOther>>

\* an extraction that applies the filter spec of the dimension to the values
FilteredOutcome(cfg, r) ==
    CASE r.outcome = "raise" -> Raise("DimensionError")
      [] r.outcome = "none" -> Frame(EmptyFrame)
      [] OTHER ->
            LET fr == ExtractFrame(r.table, cfg.extract_column, cfg.numeric_sort)
                excluded == ExcludeByDescription(fr.rows, cfg.filters.exclude_description)
            IN Frame([fr EXCEPT !.rows =
                        IF cfg.filters.id_list # <<>>
                        THEN RestrictToIdList(excluded, cfg.filters.id_list)
                        ELSE excluded])

\* what the extraction mode returns or raises once load_csv has answered r:
\* extract_column_values gets sac_name, extract_column, has_hierarchy and
\* numeric_sort, and nothing else of the configuration
ExtractOutcome(cfg, r) ==
    CASE r.outcome = "raise" -> Raise("DimensionError")
      [] r.outcome = "none" -> Frame(EmptyFrame)
      [] OTHER -> Frame(ExtractFrame(r.table, cfg.extract_column, cfg.numeric_sort))

\* extract_column_values from its call of load_csv on; whatever it raises
\* becomes a DimensionError
LdExtract ==
    /\ ld_pc = "extract_load"
    /\ LET r == load_csv(csv_file)
       IN /\ Stage("load_csv", r)
          /\ Finish(ExtractOutcome(dim_config, r))
    /\ UNCHANGED <<dim_config, csv_file, ld_df, original_col, self_warnings, self_errors,
                   loadOther>>

\* `if 'ID' not in df.columns`: the first of id_cols is renamed to ID; without
\* any candidate an error is noted and the empty frame returned
LdIdColumn ==
    /\ ld_pc = "id_check"
    /\ IF "ID" \in ld_df.cols
       THEN /\ ld_pc' = "unassigned"
            /\ UNCHANGED <<ld_df, original_col, ld_result, self_errors>>
       ELSE IF IdCols(ld_df.columns) # <<>>
       THEN /\ original_col' = IdCols(ld_df.columns)[1]
            /\ ld_df' = Rename(ld_df, IdCols(ld_df.columns)[1])
            /\ ld_pc' = "unassigned"
            /\ UNCHANGED <<ld_result, self_errors>>
       ELSE /\ self_errors' = Append(self_errors, Note("No ID column found"))
            /\ Finish(Frame(EmptyFrame))
            /\ UNCHANGED <<ld_df, original_col>>
    /\ UNCHANGED <<dim_config, csv_file, stages, self_warnings, loadOther>>

LdRemoveUnassigned ==
    /\ ld_pc = "unassigned"
    /\ Next_df("remove_unassigned", remove_unassigned(ld_df), "filters")
    /\ UNCHANGED <<dim_config, csv_file, original_col, ld_result, self_warnings, self_errors,
                   loadOther>>

LdApplyFilters ==
    /\ ld_pc = "filters"
    /\ \E t \in apply_filters(ld_df, dim_config.filters) : Next_df("apply_filters", t, "leaf")
    /\ UNCHANGED <<dim_config, csv_file, original_col, ld_result, self_warnings, self_errors,
                   loadOther>>

LeafStageAlways(cfg) == TRUE

\* `if has_hierarchy`
UseLeafStage(cfg) == cfg.has_hierarchy

LdLeaf ==
    /\ ld_pc = "leaf"
    /\ UseLeafStage(dim_config)
    /\ Next_df("get_leaf_members", get_leaf_members(ld_df, dim_config.parent_filter), "id_list")
    /\ UNCHANGED <<dim_config, csv_file, original_col, ld_result, self_warnings, self_errors,
                   loadOther>>

LdNoLeaf ==
    /\ ld_pc = "leaf"
    /\ ~UseLeafStage(dim_config)
    /\ ld_pc' = "id_list"
    /\ UNCHANGED <<dim_config, csv_file, ld_df, original_col, stages, ld_result, self_warnings,
                   self_errors, loadOther>>

\* the allow-list again, after the leaf extraction
LdIdList ==
    /\ ld_pc = "id_list"
    /\ \E t \in IdListAgain(ld_df, dim_config.filters.id_list) : Next_df("id_list", t, "project")
    /\ UNCHANGED <<dim_config, csv_file, original_col, ld_result, self_warnings, self_errors,
                   loadOther>>

\* projection, dropna and the warning about an empty result
LdProject ==
    /\ ld_pc = "project"
    /\ Stage("project", Project(ld_df))
    /\ Finish(Frame(Project(ld_df)))
    /\ self_warnings' = IF Project(ld_df).rows = <<>>
                        THEN Append(self_warnings, Note("0 members after filtering"))
                        ELSE self_warnings
    /\ UNCHANGED <<dim_config, csv_file, ld_df, original_col, self_errors, loadOther>>

(***************************************************************************)
(* The inputs of SpecLoad.                                                 *)
(***************************************************************************)
MaxLoadRows == 2

MaxValues == 3

\* the rows of a file, by its header
RowsOf(columns) ==
    CASE columns = <<"ID", "Description", "H1_PARENTID">> ->
            [ID : {"A", "B", "#", NaN},
             Description : {<<"d">>, <<"x">>, Unassigned},
             H1_PARENTID : {"A", NaN}]
      [] columns = <<"ID">> -> [ID : {"A", "#", NaN}]
      [] columns = <<"Name", "Member_ID">> -> [Name : {"A", "#"}, Member_ID : {"B", NaN}]
      [] columns = <<"Member_ID", "Name">> -> [Member_ID : {"B", NaN}, Name : {"A", "#"}]
      [] columns = <<"ID", "Value">> ->
            [ID : {"A"},
             Value : {<<"1", "0">>, <<"2">>, <<"1">>, <<"1", ".", "5">>, <<"x">>, <<" ">>,
                      <<"#">>, NotInHierarchy, DescNaN}]

TablesOf(columns, n) ==
    {[columns |-> columns, cols |-> {columns[i] : i \in DOMAIN columns}, rows |-> s] :
        s \in UNION {[1..k -> RowsOf(columns)] : k \in 0..n}}

\* what the downloads directory can hold for the dimension
Files(tables) ==
    {[state |-> st, table |-> NoTable] : st \in {"absent", "empty", "unparsable"}}
    \cup {[state |-> "ok", table |-> t] : t \in tables}

PipelineConfigs ==
    {[name |-> "dim", sac_name |-> TRUE, extract_column |-> "", numeric_sort |-> FALSE,
      has_hierarchy |-> h, parent_filter |-> pf,
      filters |-> [exclude_description |-> ex, id_list |-> ids]] :
        h \in BOOLEAN,
        pf \in {[kind |-> "none", ids |-> {}], [kind |-> "str", ids |-> {"A"}]},
        ex \in {<<>>, << <<"x">> >>},
        ids \in {<<>>, <<"A">>, <<"B", "A">>}}

ExtractConfigs ==
    {[name |-> "dim", sac_name |-> s, extract_column |-> col, numeric_sort |-> ns,
      has_hierarchy |-> TRUE, parent_filter |-> [kind |-> "none", ids |-> {}],
      filters |-> NoFilters] :
        s \in BOOLEAN, col \in {"Value", "Other"}, ns \in BOOLEAN}

\* the filter specs an extracted dimension can carry, own or merged from a
\* template override: exclude_description, id_list and parent_filter, one at a
\* time and together
FilterVariants ==
    {[filters |-> NoFilters, parent_filter |-> [kind |-> "none", ids |-> {}]],
     [filters |-> [exclude_description |-> << <<"x">> >>, id_list |-> <<>>],
      parent_filter |-> [kind |-> "none", ids |-> {}]],
     [filters |-> [exclude_description |-> <<>>, id_list |-> << <<"2">> >>],
      parent_filter |-> [kind |-> "none", ids |-> {}]],
     [filters |-> NoFilters, parent_filter |-> [kind |-> "str", ids |-> {"A"}]],
     [filters |-> [exclude_description |-> << <<"x">> >>, id_list |-> << <<"2">> >>],
      parent_filter |-> [kind |-> "str", ids |-> {"A"}]]}

WithFilters(cfg, v) ==
    [cfg EXCEPT !.filters = v.filters, !.parent_filter = v.parent_filter]

\* extracted dimensions with each of the filter specs
FilteredExtractConfigs ==
    {[name |-> "dim", sac_name |-> sn, extract_column |-> column, numeric_sort |-> ns,
      has_hierarchy |-> TRUE, parent_filter |-> v.parent_filter, filters |-> v.filters] :
        sn \in BOOLEAN, column \in {"Value", "Other"}, ns \in BOOLEAN, v \in FilterVariants}

\* rows of the source table of an extracted dimension with a filter spec
MaxFilteredValues == 2

InitLoad ==
    /\ \/ /\ dim_config \in {c \in PipelineConfigs :
                                c.has_hierarchy \/ c.parent_filter.kind = "none"}
          /\ csv_file \in Files(TablesOf(<<"ID", "Description", "H1_PARENTID">>, MaxLoadRows)
                                \cup TablesOf(<<"ID">>, MaxLoadRows)
                                \cup TablesOf(<<"Name", "Member_ID">>, MaxLoadRows)
                                \cup TablesOf(<<"Member_ID", "Name">>, MaxLoadRows))
       \/ /\ dim_config \in ExtractConfigs
          /\ csv_file \in Files(TablesOf(<<"ID", "Value">>, MaxValues))
    /\ ld_df = NoTable
    /\ original_col = ""
    /\ stages = <<>>
    /\ ld_result = <<>>
    /\ ld_pc = "call"
    /\ IdleLeaf
    /\ IdleDate
    /\ IdleGen
    /\ IdleSheet
    /\ IdleDims
    /\ IdleMore

NextLoad ==
    \/ LdEnter
    \/ LdFind
    \/ RemoveFile
    \/ LdLoadCsv
    \/ LdExtract
    \/ LdIdColumn
    \/ LdRemoveUnassigned
    \/ LdApplyFilters
    \/ LdLeaf
    \/ LdNoLeaf
    \/ LdIdList
    \/ LdProject

SpecLoad == InitLoad /\ [][NextLoad]_vars

(***************************************************************************)
(* load_dimension in the extraction mode, for every filter spec.           *)
(***************************************************************************)
InitExtract ==
    /\ dim_config \in FilteredExtractConfigs
    /\ csv_file \in Files(TablesOf(<<"ID", "Value">>, MaxFilteredValues))
    /\ ld_df = NoTable
    /\ original_col = ""
    /\ stages = <<>>
    /\ ld_result = <<>>
    /\ ld_pc = "call"
    /\ IdleLeaf
    /\ IdleDate
    /\ IdleGen
    /\ IdleSheet
    /\ IdleDims
    /\ IdleMore

NextExtract ==
    \/ LdEnter
    \/ LdFind
    \/ RemoveFile
    \/ LdExtract

SpecExtract == InitExtract /\ [][NextExtract]_vars

(***************************************************************************)
(* _setup_upload_sheet: the cells of row 1 of the Upload sheet.            *)
(***************************************************************************)
sheetOther == <<leafVars, filters, manual_range, version_file, year, month, end_year, end_m,
                dpc, dr_steps, genVars, loadVars, dimensions_json, moreVars>>

HeadersColumnsOnly(columns, dates) == columns

\* headers = columns + self.date_range
Headers(columns, dates) == columns \o dates

\* ws.cell(row=1, column=c, value=v)
SetCell(cells, c, v) == [x \in DOMAIN cells \cup {c} |-> IF x = c THEN v ELSE cells[x]]

\* ws.cell(row=1, column=c): the cell is created empty when it does not exist
TouchCell(cells, c) == IF c \in DOMAIN cells THEN cells ELSE SetCell(cells, c, "None")

ShEnter ==
    /\ sh_pc = "call"
    /\ col_idx' = 1
    /\ sh_pc' = "headers"
    /\ UNCHANGED <<sheet_columns, ws_row1, date_range, sheetOther>>

\* one iteration of `for col_idx, header in enumerate(headers, 1)`
ShHeaderCell ==
    /\ sh_pc = "headers"
    /\ col_idx <= Len(Headers(sheet_columns, date_range))
    /\ ws_row1' = SetCell(ws_row1, col_idx, Headers(sheet_columns, date_range)[col_idx])
    /\ col_idx' = col_idx + 1
    /\ UNCHANGED <<sheet_columns, sh_pc, date_range, sheetOther>>

\* the widths, the data rows (rows 2 and below) and the thick border, which
\* touches the cell of row 1 in the column of the last dimension
ShRest ==
    /\ sh_pc = "headers"
    /\ col_idx > Len(Headers(sheet_columns, date_range))
    /\ ws_row1' = TouchCell(ws_row1, Len(sheet_columns))
    /\ sh_pc' = "done"
    /\ UNCHANGED <<sheet_columns, col_idx, date_range, sheetOther>>

(***************************************************************************)
(* The inputs of SpecSheet.                                                *)
(***************************************************************************)
MaxSheetCols == 2

MaxSheetMonths == 3

\* create_excel has validated the columns: at least one, all of them defined
SheetColumns == UNION {[1..n -> DimensionKinds] : n \in 1..MaxSheetCols}

\* self.date_range: empty when load_date_range raised, a range otherwise
SheetRanges == {SubSeq(DefaultRange, 1, k) : k \in 0..MaxSheetMonths} \cup {DefaultRange}

InitSheet ==
    /\ sheet_columns \in SheetColumns
    /\ ws_row1 = <<>>
    /\ col_idx = 0
    /\ sh_pc = "call"
    /\ manual_range = [start_month |-> <<>>, end_month |-> <<>>]
    /\ version_file = [state |-> "missing", start |-> <<>>, end |-> <<>>]
    /\ date_range \in SheetRanges
    /\ year = 0
    /\ month = 0
    /\ end_year = 0
    /\ end_m = 0
    /\ dpc = "idle"
    /\ dr_steps = <<>>
    /\ IdleLeaf
    /\ IdleGen
    /\ IdleLoad
    /\ IdleDims
    /\ IdleMore

NextSheet == ShEnter \/ ShHeaderCell \/ ShRest

SpecSheet == InitSheet /\ [][NextSheet]_vars

(***************************************************************************)
(* api_dimension: PUT and DELETE of /api/projects/<name>/dimensions/<dim>. *)
(***************************************************************************)
dimsOther == <<leafVars, filters, dateVars, genVars, loadVars, sheetVars, moreVars>>

\* d.get('name') of a record without the key
NoName == "None"

\* next((i for i, d in enumerate(dims) if d.get('name') == dim_name), None);
\* 0 stands for None
Existing(dims, dim_name) ==
    IF \E i \in DOMAIN dims : dims[i].name = dim_name
    THEN CHOOSE i \in DOMAIN dims :
            dims[i].name = dim_name /\ \A j \in 1..(i - 1) : dims[j].name # dim_name
    ELSE 0

\* PUT: the record at the position found is replaced by the request body, or
\* the body is appended
PutDimension(dim_name, dim_data) ==
    /\ dimensions_json' =
          IF Existing(dimensions_json, dim_name) # 0
          THEN [dimensions_json EXCEPT ![Existing(dimensions_json, dim_name)] = dim_data]
          ELSE Append(dimensions_json, dim_data)
    /\ UNCHANGED dimsOther

\* DELETE: every record of that name is dropped
DeleteDimension(dim_name) ==
    /\ dimensions_json' = SelectSeq(dimensions_json, LAMBDA d : d.name # dim_name)
    /\ UNCHANGED dimsOther

(***************************************************************************)
(* The inputs of SpecDims.                                                 *)
(***************************************************************************)
MaxDims == 4

DimNames == {"A", "B", "C"}

\* request.json: a dimension record, with or without a name
Bodies == [name : DimNames \cup {NoName}]

\* a project starts with no dimensions
InitDims ==
    /\ dimensions_json = <<>>
    /\ IdleLeaf
    /\ IdleDate
    /\ IdleGen
    /\ IdleLoad
    /\ IdleSheet
    /\ IdleMore

\* a PUT request; the file holds at most MaxDims records
ApiPut ==
    \E dim_name \in DimNames, dim_data \in Bodies :
       /\ Len(dimensions_json) < MaxDims \/ Existing(dimensions_json, dim_name) # 0
       /\ PutDimension(dim_name, dim_data)

\* a DELETE request
ApiDelete == \E dim_name \in DimNames : DeleteDimension(dim_name)

NextDims == ApiPut \/ ApiDelete

SpecDims == InitDims /\ [][NextDims]_vars

(***************************************************************************)
(* find_csv_file.  A file name is the sequence of the parts it is made of: *)
(* the parts of the SAC id, then "Master", "WithHierarchy" and ".csv".     *)
(***************************************************************************)
findOther == <<leafVars, filters, dateVars, genVars, loadVars, sheetVars, dimensions_json,
               bookVars, overVars>>

\* f"{sac_name}MasterWithHierarchy.csv", f"{sac_name}Master.csv" and
\* f"{sac_name}.csv"
WithHierarchyCsv(id) == id \o <<"Master", "WithHierarchy", ".csv">>

MasterCsv(id) == id \o <<"Master", ".csv">>

PlainCsv(id) == id \o <<".csv">>

PatternsHierarchyOrder(id, hier) == <<WithHierarchyCsv(id), MasterCsv(id), PlainCsv(id)>>

\* the list patterns, by the hierarchy flag
Patterns(id, hier) ==
    IF hier THEN <<WithHierarchyCsv(id), MasterCsv(id), PlainCsv(id)>>
    ELSE <<MasterCsv(id), PlainCsv(id), WithHierarchyCsv(id)>>

\* entry: the list of patterns is built
FcEnter ==
    /\ f_pc = "call"
    /\ fc_patterns' = Patterns(sac_name, has_hierarchy)
    /\ fpos' = 1
    /\ f_pc' = "loop"
    /\ UNCHANGED <<downloads, sac_name, has_hierarchy, found, findOther>>

\* one iteration of `for pattern in patterns`: the path is returned when
\* os.path.exists(path)
FcProbe ==
    /\ f_pc = "loop"
    /\ fpos <= Len(fc_patterns)
    /\ IF fc_patterns[fpos] \in downloads
       THEN found' = fc_patterns[fpos] /\ f_pc' = "returned" /\ UNCHANGED fpos
       ELSE fpos' = fpos + 1 /\ UNCHANGED <<found, f_pc>>
    /\ UNCHANGED <<downloads, sac_name, has_hierarchy, fc_patterns, findOther>>

\* the loop is over: return None
FcNone ==
    /\ f_pc = "loop"
    /\ fpos > Len(fc_patterns)
    /\ found' = <<>>
    /\ f_pc' = "returned"
    /\ UNCHANGED <<downloads, sac_name, has_hierarchy, fc_patterns, fpos, findOther>>

(***************************************************************************)
(* The inputs of SpecFind.                                                 *)
(***************************************************************************)
MaxIdParts == 2

\* the SAC ids A, AMaster, ...: an id may end in a part a pattern appends
SacNames == {<<"A">> \o [i \in 1..k |-> "Master"] : k \in 0..(MaxIdParts - 1)}

\* the file names the patterns of these ids can give
FileNames ==
    UNION {{WithHierarchyCsv(id), MasterCsv(id), PlainCsv(id)} : id \in SacNames}

InitFind ==
    /\ downloads \in SUBSET FileNames
    /\ sac_name \in SacNames
    /\ has_hierarchy \in BOOLEAN
    /\ fc_patterns = <<>>
    /\ fpos = 0
    /\ found = <<>>
    /\ f_pc = "call"
    /\ IdleLeaf
    /\ IdleDate
    /\ IdleGen
    /\ IdleLoad
    /\ IdleSheet
    /\ IdleDims
    /\ IdleBook
    /\ IdleOver

NextFind == FcEnter \/ FcProbe \/ FcNone

SpecFind == InitFind /\ [][NextFind]_vars

(***************************************************************************)
(* create_excel from the Upload sheet on: _setup_upload_sheet's data rows, *)
(* _setup_dimension_sheet for every column and _add_data_validation.  A    *)
(* dimension name and a table name are sequences of characters.            *)
(***************************************************************************)
bookOther == <<leafVars, filters, dateVars, genVars, loadVars, sheetVars, dimensions_json,
               findVars, overVars>>

\* d.get(k, default)
Get(d, k, default) == IF k \in DOMAIN d THEN d[k] ELSE default

\* the default of settings.data_rows
DefaultDataRows == 200

\* f"tbl_{dim_name.lower().replace(' ', '_')}"
DefaultTableName(dim_name) ==
    <<"t", "b", "l", "_">> \o
    [i \in DOMAIN dim_name |-> IF Lower(dim_name[i]) = " " THEN "_" ELSE Lower(dim_name[i])]

\* dim_config.get("table_name", f"tbl_...")
TableName(dim_name, cfg) == Get(cfg, "table_name", DefaultTableName(dim_name))

\* col[:31]
SheetTitle(title) == SubSeq(title, 1, IF Len(title) < 31 THEN Len(title) ELSE 31)

\* self.project.get("settings", {}).get("data_rows", 200)
ProjectDataRows == Get(project_settings, "data_rows", DefaultDataRows)

\* the Upload sheet: rows 2 .. data_rows + 1 are created and styled
BkUploadSheet ==
    /\ bk_pc = "upload"
    /\ LET data_rows == Get(bk_template, "data_rows", ProjectDataRows)
       IN upload_rows' = [first |-> 2, last |-> data_rows + 1]
    /\ bk_pos' = 1
    /\ bk_pc' = "sheets"
    /\ UNCHANGED <<bk_template, project_settings, ce_dimensions, bk_data, sheetnames, wb_tables,
                   data_validations, bookOther>>

\* one iteration of `for col in columns`: the sheet of the column, with a
\* table over A2:B{len(data) + 2} when the dataset is not empty
BkDimensionSheet ==
    /\ bk_pc = "sheets"
    /\ bk_pos <= Len(bk_template.columns)
    /\ LET column == bk_template.columns[bk_pos]
           config == ce_dimensions[column]
           members == bk_data[column]
       IN /\ sheetnames' = Append(sheetnames, SheetTitle(column))
          /\ wb_tables' = IF members > 0
                          THEN wb_tables \cup {[sheet |-> SheetTitle(column),
                                                displayName |-> TableName(column, config),
                                                header |-> <<"Description", "ID">>,
                                                first |-> 2, last |-> members + 2]}
                          ELSE wb_tables
    /\ bk_pos' = bk_pos + 1
    /\ UNCHANGED <<bk_template, project_settings, ce_dimensions, bk_data, upload_rows,
                   data_validations, bk_pc, bookOther>>

\* the loop over the columns is over: _add_data_validation is called
BkSheetsDone ==
    /\ bk_pc = "sheets"
    /\ bk_pos > Len(bk_template.columns)
    /\ bk_pos' = 1
    /\ bk_pc' = "validation"
    /\ UNCHANGED <<bk_template, project_settings, ce_dimensions, bk_data, upload_rows,
                   sheetnames, wb_tables, data_validations, bookOther>>

\* one iteration of `for col_idx, col_name in enumerate(columns, 1)`: a list
\* validation INDIRECT("{table_name}[ID]") over rows 2 .. data_rows + 1 of
\* column col_idx, data_rows read from the project settings
BkValidation ==
    /\ bk_pc = "validation"
    /\ bk_pos <= Len(bk_template.columns)
    /\ LET col_name == bk_template.columns[bk_pos]
           config == ce_dimensions[col_name]
           data_rows == ProjectDataRows
       IN data_validations' =
             Append(data_validations,
                    [type |-> "list", table |-> TableName(col_name, config),
                     column |-> "ID", col_idx |-> bk_pos,
                     first |-> 2, last |-> data_rows + 1])
    /\ bk_pos' = bk_pos + 1
    /\ UNCHANGED <<bk_template, project_settings, ce_dimensions, bk_data, upload_rows,
                   sheetnames, wb_tables, bk_pc, bookOther>>

\* the workbook is ready to be saved
BkDone ==
    /\ bk_pc = "validation"
    /\ bk_pos > Len(bk_template.columns)
    /\ bk_pc' = "built"
    /\ UNCHANGED <<bk_template, project_settings, ce_dimensions, bk_data, upload_rows,
                   sheetnames, wb_tables, data_validations, bk_pos, bookOther>>

(***************************************************************************)
(* The inputs of SpecBook.                                                 *)
(***************************************************************************)
MaxBookCols == 2

MaxMembers == 1

MaxDataRows == 2

\* dimension names: with an upper-case letter and a blank, and without
BookNames == {<<"A", " ", "B">>, <<"c">>}

\* the column lists create_excel has validated, without a repeated name
BookColumns ==
    {c \in UNION {[1..n -> BookNames] : n \in 1..MaxBookCols} :
        \A i, j \in DOMAIN c : i # j => c[i] # c[j]}

\* a dimension record, with or without a configured table_name
BookDimensions(name) ==
    {[name |-> name], [name |-> name, table_name |-> <<"T">> \o name]}

InitBook ==
    /\ \E c \in BookColumns :
          bk_template \in {[columns |-> c]}
                          \cup {[columns |-> c, data_rows |-> n] : n \in 1..MaxDataRows}
    /\ project_settings \in {<<>>} \cup {[data_rows |-> n] : n \in 1..MaxDataRows}
    /\ ce_dimensions \in {d \in [BookNames -> UNION {BookDimensions(n) : n \in BookNames}] :
                             \A n \in BookNames : d[n].name = n}
    /\ bk_data \in [BookNames -> 0..MaxMembers]
    /\ upload_rows = <<>>
    /\ sheetnames = <<>>
    /\ wb_tables = {}
    /\ data_validations = <<>>
    /\ bk_pos = 0
    /\ bk_pc = "upload"
    /\ IdleLeaf
    /\ IdleDate
    /\ IdleGen
    /\ IdleLoad
    /\ IdleSheet
    /\ IdleDims
    /\ IdleFind
    /\ IdleOver

NextBook == BkUploadSheet \/ BkDimensionSheet \/ BkSheetsDone \/ BkValidation \/ BkDone

SpecBook == InitBook /\ [][NextBook]_vars

(***************************************************************************)
(* The template loop of generate with the overrides and the dataset cache  *)
(* of create_excel, and the overrides of api_preview.  A dict is a         *)
(* function of its keys; the dimension_overrides of a template are the     *)
(* sequence of its items, in the order of the dict.                        *)
(***************************************************************************)
overOther == <<leafVars, filters, dateVars, genVars, loadVars, sheetVars, dimensions_json,
               findVars, bookVars>>

\* {d["name"]: d for d in self.dimensions_config.get("dimensions", [])}
ByName(dims) ==
    [n \in {dims[i].name : i \in DOMAIN dims} |->
        dims[CHOOSE i \in DOMAIN dims :
                dims[i].name = n /\ \A j \in (i + 1)..Len(dims) : dims[j].name # n]]

OverrideOnly(own, override) == override

\* filters = own.copy(); filters.update(override), and {**own, **override}
Merge(own, override) ==
    [k \in DOMAIN own \cup DOMAIN override |->
        IF k \in DOMAIN override THEN override[k] ELSE own[k]]

StoredAliased(stored, name, merged) ==
    [i \in DOMAIN stored |->
        IF stored[i].name = name THEN [stored[i] EXCEPT !.filters = merged] ELSE stored[i]]

\* what the stored definitions are after an override was merged: dim_copy and
\* filters are copies, the update reaches neither the stored record nor its
\* filters
Stored(stored, name, merged) == stored

KeepCache(cache) == cache

\* self.dimension_data = {}
FreshCache(cache) == <<>>

\* the source table of every dimension
SourceTable ==
    [cols |-> {"ID", "Description"},
     rows |-> <<[ID |-> "A", Description |-> <<"d">>],
                [ID |-> "B", Description |-> <<"x">>]>>]

\* filters.get("exclude_description", []) and filters.get("id_list", [])
FilterArgs(f) ==
    [exclude_description |-> Get(f, "exclude_description", <<>>),
     id_list |-> Get(f, "id_list", <<>>)]

\* the datasets load_dimension can return for a dimension record
Datasets(cfg) == apply_filters(remove_unassigned(SourceTable), FilterArgs(cfg.filters))

OvTemplate == ov_templates[ov_tpos]

\* generate is called: self.warnings = []
OvGenerate ==
    /\ ov_pc = "call"
    /\ ov_warnings' = <<>>
    /\ ov_pc' = "next"
    /\ UNCHANGED <<dimensions_config, ov_templates, ov_tpos, ov_dimensions, ov_pos, ov_cache,
                   ov_loads, ov_outcomes, previewed, overOther>>

\* `for template in templates`: the cache is reset, create_excel builds its
\* dict of the dimensions
OvNextTemplate ==
    /\ ov_pc = "next"
    /\ ov_tpos < Len(ov_templates)
    /\ ov_tpos' = ov_tpos + 1
    /\ ov_cache' = FreshCache(ov_cache)
    /\ ov_dimensions' = ByName(dimensions_config)
    /\ ov_pos' = 1
    /\ ov_pc' = "overrides"
    /\ UNCHANGED <<dimensions_config, ov_templates, ov_loads, ov_warnings, ov_outcomes,
                   previewed, overOther>>

\* one iteration of `for name, override in overrides.items()`
OvOverride ==
    /\ ov_pc = "overrides"
    /\ ov_pos <= Len(OvTemplate.dimension_overrides)
    /\ LET name == OvTemplate.dimension_overrides[ov_pos].name
           override == OvTemplate.dimension_overrides[ov_pos].override
       IN IF name \in DOMAIN ov_dimensions
          THEN LET merged == Merge(ov_dimensions[name].filters, override)
               IN /\ ov_dimensions' = [ov_dimensions EXCEPT ![name].filters = merged]
                  /\ dimensions_config' = Stored(dimensions_config, name, merged)
                  /\ UNCHANGED ov_warnings
          ELSE /\ ov_warnings' = Append(ov_warnings, [about |-> name,
                                                      text |-> "Override for unknown dimension"])
               /\ UNCHANGED <<ov_dimensions, dimensions_config>>
    /\ ov_pos' = ov_pos + 1
    /\ UNCHANGED <<ov_templates, ov_tpos, ov_cache, ov_loads, ov_outcomes, ov_pc, previewed,
                   overOther>>

\* the overrides are applied: a column that is no dimension raises
\* TemplateError, otherwise the load loop starts
OvValidate ==
    /\ ov_pc = "overrides"
    /\ ov_pos > Len(OvTemplate.dimension_overrides)
    /\ IF \E i \in DOMAIN OvTemplate.columns : OvTemplate.columns[i] \notin DOMAIN ov_dimensions
       THEN /\ ov_outcomes' = Append(ov_outcomes, "failed")
            /\ ov_pc' = "next"
            /\ UNCHANGED ov_pos
       ELSE /\ ov_pos' = 1
            /\ ov_pc' = "load"
            /\ UNCHANGED ov_outcomes
    /\ UNCHANGED <<dimensions_config, ov_templates, ov_tpos, ov_dimensions, ov_cache, ov_loads,
                   ov_warnings, previewed, overOther>>

\* one iteration of `for col in columns`: load_dimension is called with the
\* record of the local dict unless the column is in the cache
OvLoad ==
    /\ ov_pc = "load"
    /\ ov_pos <= Len(OvTemplate.columns)
    /\ LET col == OvTemplate.columns[ov_pos]
       IN IF col \in DOMAIN ov_cache
          THEN UNCHANGED <<ov_cache, ov_loads>>
          ELSE \E data \in Datasets(ov_dimensions[col]) :
                  /\ ov_cache' = Put(ov_cache, col, data)
                  /\ ov_loads' = Append(ov_loads, [template |-> ov_tpos, col |-> col,
                                                   filters |-> ov_dimensions[col].filters])
    /\ ov_pos' = ov_pos + 1
    /\ UNCHANGED <<dimensions_config, ov_templates, ov_tpos, ov_dimensions, ov_warnings,
                   ov_outcomes, ov_pc, previewed, overOther>>

\* the sheets are built from the cache and the workbook is saved, or one of
\* the two fails
OvFinish ==
    /\ ov_pc = "load"
    /\ ov_pos > Len(OvTemplate.columns)
    /\ \E outcome \in {"success", "failed"} : ov_outcomes' = Append(ov_outcomes, outcome)
    /\ ov_pc' = "next"
    /\ UNCHANGED <<dimensions_config, ov_templates, ov_tpos, ov_dimensions, ov_pos, ov_cache,
                   ov_loads, ov_warnings, previewed, overOther>>

\* the loop over the templates is over
OvSummary ==
    /\ ov_pc = "next"
    /\ ov_tpos = Len(ov_templates)
    /\ ov_pc' = "done"
    /\ UNCHANGED <<dimensions_config, ov_templates, ov_tpos, ov_dimensions, ov_pos, ov_cache,
                   ov_loads, ov_warnings, ov_outcomes, previewed, overOther>>

\* template.get('dimension_overrides', {}) as a dict
OverridesOf(template) ==
    [n \in {template.dimension_overrides[i].name : i \in DOMAIN template.dimension_overrides} |->
        template.dimension_overrides[
            CHOOSE i \in DOMAIN template.dimension_overrides :
                template.dimension_overrides[i].name = n].override]

\* api_preview: the record it passes to load_dimension for a column
PreviewConfig(dims, template, col) ==
    LET cfg == Get(dims, col, <<>>)
    IN IF col \in DOMAIN OverridesOf(template)
       THEN Put(cfg, "filters", Merge(Get(cfg, "filters", <<>>), OverridesOf(template)[col]))
       ELSE cfg

\* api_preview of one template: load_dimension is called for every column up
\* to the first that is no dimension, for which it raises DimensionError
ApiPreview ==
    /\ ov_pc = "call"
    /\ \E t \in DOMAIN ov_templates :
          LET template == ov_templates[t]
              dims == ByName(dimensions_config)
              unknown == {i \in DOMAIN template.columns : template.columns[i] \notin DOMAIN dims}
              last == IF unknown = {} THEN Len(template.columns)
                      ELSE CHOOSE i \in unknown : \A j \in unknown : i <= j
          IN /\ previewed' = [i \in 1..last |->
                                 [template |-> t, col |-> template.columns[i],
                                  config |-> PreviewConfig(dims, template,
                                                           template.columns[i])]]
             /\ ov_pc' = IF unknown = {} THEN "previewed" ELSE "preview_error"
    /\ UNCHANGED <<dimensions_config, ov_templates, ov_tpos, ov_dimensions, ov_pos, ov_cache,
                   ov_loads, ov_warnings, ov_outcomes, overOther>>

(***************************************************************************)
(* The inputs of SpecOver.                                                 *)
(***************************************************************************)
MaxOvTemplates == 2

\* a column and an override name that is no dimension
Zed == "Zed"

\* filter specs and overrides: dicts over the filter keys
FilterDicts ==
    {<<>>,
     [id_list |-> <<"A">>],
     [exclude_description |-> << <<"x">> >>, id_list |-> <<"B">>]}

OverrideDicts ==
    {[id_list |-> <<"B">>], [exclude_description |-> <<>>], [id_list |-> <<>>]}

\* the dimension_overrides of a template: no item, an item for D1, an item
\* for a name that is no dimension, or both
OverrideItems ==
    {<<>>}
    \cup {<<[name |-> "D1", override |-> o]>> : o \in OverrideDicts}
    \cup {<<[name |-> Zed, override |-> [id_list |-> <<"A">>]]>>}
    \cup {<<[name |-> Zed, override |-> [id_list |-> <<"A">>]],
            [name |-> "D1", override |-> [id_list |-> <<"A">>]]>>}

OvTemplates ==
    [columns : {<<"D1", "D2", "D1">>, <<"D1", Zed>>},
     dimension_overrides : OverrideItems]

InitOver ==
    /\ \E f \in FilterDicts :
          dimensions_config = <<[name |-> "D1", filters |-> f],
                                [name |-> "D2", filters |-> <<>>]>>
    /\ ov_templates \in UNION {[1..n -> OvTemplates] : n \in 1..MaxOvTemplates}
    /\ ov_tpos = 0
    /\ ov_dimensions = <<>>
    /\ ov_pos = 0
    /\ ov_cache = <<>>
    /\ ov_loads = <<>>
    /\ ov_warnings = <<[about |-> "earlier run", text |-> "warning"]>>
    /\ ov_outcomes = <<>>
    /\ previewed = <<>>
    /\ ov_pc = "call"
    /\ IdleLeaf
    /\ IdleDate
    /\ IdleGen
    /\ IdleLoad
    /\ IdleSheet
    /\ IdleDims
    /\ IdleFind
    /\ IdleBook

NextOver ==
    \/ OvGenerate
    \/ OvNextTemplate
    \/ OvOverride
    \/ OvValidate
    \/ OvLoad
    \/ OvFinish
    \/ OvSummary
    \/ ApiPreview

SpecOver == InitOver /\ [][NextOver]_vars

(***************************************************************************)
(* Claims about get_leaf_members.                                          *)
(***************************************************************************)
\* C1: when get_leaf_members has returned for a table with at least one
\* parent-reference column, no returned row has an ID that occurs as a value
\* (a non-null cell) of a parent-reference column of the table that remained
\* after the optional subtree restriction.
C1_LeafHasNoParentId ==
    (pc = "done" /\ table.cols \cap ParentColNames # {}) =>
        \A i \in DOMAIN ret.rows : \A j \in DOMAIN df.rows :
            \A c \in df.cols \cap ParentColNames :
                Cell(df.rows[j], c) # ret.rows[i].ID

\* C1 witness: a subtree-restricted call that returned a member and dropped
\* another one that is a parent only through the second parent column
C1_Witness ==
    /\ pc = "done"
    /\ run = 1
    /\ Truthy(parent_filter)
    /\ ret.rows # <<>>
    /\ \E j \in DOMAIN df.rows : \E k \in DOMAIN df.rows :
          /\ df.rows[k].H2_PARENTID = df.rows[j].ID
          /\ \A m \in DOMAIN df.rows : df.rows[m].H1_PARENTID # df.rows[j].ID
          /\ df.rows[j].ID \notin IdsOf(ret.rows)

\* C2 as stated: the traversal run on its own output set yields the same set
\* of IDs as the first run.
C2_RerunSameSet ==
    (pc = "done" /\ run = 2) => descendants = first

\* C2 amended: the traversal run on its own output set yields no ID outside
\* that set; it yields the same set exactly when every ID of the output set
\* belongs to a row with a parent reference to an ID of the output set.
C2_RerunSubset ==
    (pc = "done" /\ run = 2) =>
        /\ descendants \subseteq first
        /\ (descendants = first) <=>
              \A id \in first :
                  \E j \in DOMAIN table.rows :
                      /\ table.rows[j].ID = id
                      /\ \E c \in table.cols \cap ParentColNames :
                            Cell(table.rows[j], c) \in first

\* C2 witness: a second run that ended with a non-empty proper subset
C2_Witness ==
    /\ pc = "done"
    /\ run = 2
    /\ descendants # {}
    /\ descendants # first

\* C3: the traversal always reaches the end of its loop, and no step of the
\* loop puts an ID that is already in the descendant set on the frontier
\* unless it is on the frontier already.
C3_BfsTerminates ==
    /\ (pc = "bfs") ~> (pc = "leaf")
    /\ [][(pc = "bfs" /\ pc' = "bfs") =>
            \A id \in descendants : id \in to_process' => id \in to_process]_vars

\* C3 witness: the traversal has ended on a table with a reference cycle of
\* two rows, both of them in the descendant set
C3_Witness ==
    /\ pc = "leaf"
    /\ Truthy(parent_filter)
    /\ \E i \in DOMAIN table.rows : \E j \in DOMAIN table.rows :
          /\ table.rows[i].ID # table.rows[j].ID
          /\ table.rows[i].H1_PARENTID = table.rows[j].ID
          /\ table.rows[j].H1_PARENTID = table.rows[i].ID
          /\ {table.rows[i].ID, table.rows[j].ID} \subseteq descendants

(***************************************************************************)
(* Claims about apply_filters.                                             *)
(***************************************************************************)
CountRow(rows, r) == Cardinality({i \in DOMAIN rows : rows[i] = r})

InIdList(x) == \E i \in DOMAIN filters.id_list : filters.id_list[i] = x

\* C10: after apply_filters with a non-empty id_list, the rows of the output
\* are ordered by the position of their ID in id_list; when no exclusion
\* pattern is configured the output holds exactly the rows of the input whose
\* ID is in id_list (each as often as the input holds it) and no other row;
\* id_list [B, A] on rows A, B, C gives B, A.
C10_AllowList ==
    (pc = "af_done" /\ filters.id_list # <<>>) =>
        /\ \A i \in DOMAIN ret.rows : \A j \in DOMAIN ret.rows :
              i < j =>
                 \E m \in DOMAIN filters.id_list : \E n \in DOMAIN filters.id_list :
                    /\ filters.id_list[m] = ret.rows[i].ID
                    /\ filters.id_list[n] = ret.rows[j].ID
                    /\ \A k \in 1..(n - 1) : filters.id_list[k] # ret.rows[j].ID
                    /\ m <= n
        /\ \A i \in DOMAIN ret.rows : InIdList(ret.rows[i].ID)
        /\ filters.exclude_description = <<>> =>
              \A i \in DOMAIN table.rows :
                 InIdList(table.rows[i].ID) =>
                    CountRow(ret.rows, table.rows[i]) = CountRow(table.rows, table.rows[i])
        /\ \A i \in DOMAIN ret.rows :
              CountRow(ret.rows, ret.rows[i]) = CountRow(table.rows, ret.rows[i])
        /\ (/\ filters.id_list = <<"B", "A">>
            /\ [i \in DOMAIN table.rows |-> table.rows[i].ID] = <<"A", "B", "C">>
            /\ filters.exclude_description = <<>>) =>
              [i \in DOMAIN ret.rows |-> ret.rows[i].ID] = <<"B", "A">>

\* C10 witness: id_list [B, A] applied to rows A, B, C returned B, A
C10_Witness ==
    /\ pc = "af_done"
    /\ filters.id_list = <<"B", "A">>
    /\ filters.exclude_description = <<>>
    /\ [i \in DOMAIN table.rows |-> table.rows[i].ID] = <<"A", "B", "C">>
    /\ [i \in DOMAIN ret.rows |-> ret.rows[i].ID] = <<"B", "A">>

(***************************************************************************)
(* Claims about load_date_range.                                           *)
(***************************************************************************)
\* the start and end the expansion was given, as (year, month) numbers
GivenStart == IF ManualSet THEN manual_range.start_month ELSE version_file.start

GivenEnd == IF ManualSet THEN manual_range.end_month ELSE version_file.end

\* the number of the calendar month (year, month), counted from year 0
MonthIndex(tok) == ToInt(SubSeq(tok, 1, 4)) * 12 + ToInt(SubSeq(tok, 5, 6)) - 1

\* C9: when load_date_range has returned after expanding a start not later
\* than the end (either from the manual range or from the version row), the
\* date range is the inclusive run of consecutive calendar months from start
\* to end as six-character YYYYMM tokens: it has
\* 12*(endYear-startYear)+(endMonth-startMonth)+1 tokens, the first is start,
\* the last is end, each token is the calendar month after the one before it
\* (month 12 is followed by month 01 of the next year); 202503..202601 gives
\* 11 tokens and start = end gives one.
C9_Expansion ==
    (/\ dpc = "returned"
     /\ ManualSet \/ version_file.state = "ok"
     /\ GivenStart \in ValidTokens /\ GivenEnd \in ValidTokens
     /\ MonthIndex(GivenStart) <= MonthIndex(GivenEnd)) =>
        /\ Len(date_range) = MonthIndex(GivenEnd) - MonthIndex(GivenStart) + 1
        /\ \A i \in DOMAIN date_range :
              /\ Len(date_range[i]) = 6
              /\ ToInt(SubSeq(date_range[i], 5, 6)) \in 1..12
              /\ MonthIndex(date_range[i]) = MonthIndex(GivenStart) + i - 1
        /\ date_range[1] = GivenStart
        /\ date_range[Len(date_range)] = GivenEnd
        /\ (GivenStart = <<"2", "0", "2", "5", "0", "3">>
               /\ GivenEnd = <<"2", "0", "2", "6", "0", "1">>) =>
              /\ Len(date_range) = 11
              /\ date_range[10] = <<"2", "0", "2", "5", "1", "2">>
        /\ GivenStart = GivenEnd => date_range = <<GivenStart>>

\* C9 witness: the manual range 202503..202601 expanded to 11 tokens
C9_Witness ==
    /\ dpc = "returned"
    /\ manual_range.start_month = <<"2", "0", "2", "5", "0", "3">>
    /\ manual_range.end_month = <<"2", "0", "2", "6", "0", "1">>
    /\ Len(date_range) = 11
    /\ date_range[11] = <<"2", "0", "2", "6", "0", "1">>

(***************************************************************************)
(* Claims about generate and create_excel.                                 *)
(***************************************************************************)
Names(list) == {list[i].name : i \in DOMAIN list}

Entries(list, n) == {i \in DOMAIN list : list[i].name = n}

\* the columns of the selected template named n
ColumnsOf(n) == {templates[n].columns[i] : i \in DOMAIN templates[n].columns}

MissingFile(col) ==
    col \in DimensionKinds /\ dimensions[col].sac_name /\ dimensions[col].csv = "missing"

\* C4: at the head of the loop of generate and when generate has returned,
\* the templates recorded in the success and failed lists are exactly the
\* first tpos selected templates, each recorded once in one of the two lists
\* and each list in the order of the selected list; generate returns only
\* when every selected template has been attempted.
C4_EveryTemplateOnce ==
    (gpc \in {"next", "done"} /\ templates # <<>>) =>
        /\ \A n \in DOMAIN templates :
              Cardinality(Entries(results.success, n))
                 + Cardinality(Entries(results.failed, n)) = (IF n <= tpos THEN 1 ELSE 0)
        /\ \A i, j \in DOMAIN results.success :
              i < j => results.success[i].name < results.success[j].name
        /\ \A i, j \in DOMAIN results.failed :
              i < j => results.failed[i].name < results.failed[j].name
        /\ gpc = "done" => tpos = Len(templates)

\* C4 witness: generate has returned, the first of two templates failed and
\* the second one succeeded
C4_Witness ==
    /\ gpc = "done"
    /\ Len(templates) = 2
    /\ Names(results.failed) = {1}
    /\ Names(results.success) = {2}

\* C5 as stated: no template is recorded as failed because load_dimension
\* raised for one of its columns, and every column loaded for a dimension that
\* cannot be loaded has an empty dataset and a noted warning.
C5_DimensionFailureNeverAborts ==
    /\ \A i \in DOMAIN results.failed : results.failed[i].cause # "load_dimension"
    /\ \A col \in DOMAIN dimension_data :
          col # "Good" =>
             /\ dimension_data[col] = 0
             /\ \E i \in DOMAIN dimension_errors : dimension_errors[i].about = col

\* C6: a column whose dimension has no source file is stored with zero
\* members and a noted warning; a template recorded as a success carries a
\* warning for each such column; no template is recorded as failed because
\* the load of such a column raised; so when generate has returned every
\* template with such a column is a success unless its columns are invalid,
\* the load of another column raised, or building or saving the workbook
\* failed.
C6_MissingFile ==
    /\ \A col \in DOMAIN dimension_data :
          MissingFile(col) =>
             /\ dimension_data[col] = 0
             /\ \E i \in DOMAIN dimension_errors : dimension_errors[i].about = col
    /\ \A i \in DOMAIN results.success :
          \A col \in ColumnsOf(results.success[i].name) :
             MissingFile(col) =>
                /\ results.success[i].status = "WARNING"
                /\ \E w \in DOMAIN results.success[i].warnings :
                      results.success[i].warnings[w].about = col
                /\ \E w \in DOMAIN results.warnings : results.warnings[w].about = col
    /\ \A i \in DOMAIN results.failed :
          results.failed[i].cause = "load_dimension" => ~MissingFile(results.failed[i].at)
    /\ gpc = "done" =>
          \A n \in DOMAIN templates :
             (\E col \in ColumnsOf(n) : MissingFile(col)) =>
                \/ n \in written /\ n \in Names(results.success)
                \/ \E i \in Entries(results.failed, n) :
                      \/ results.failed[i].error = "TemplateError"
                      \/ results.failed[i].cause \in {"build", "save"}
                      \/ results.failed[i].cause = "load_dimension"
                            /\ ~MissingFile(results.failed[i].at)

\* C6 witness: generate has returned with a success for a template whose
\* first column has no source file and whose second column loaded members
C6_Witness ==
    /\ gpc = "done"
    /\ \E i \in DOMAIN results.success :
          /\ templates[results.success[i].name].columns = <<"NoFile", "Good">>
          /\ results.success[i].status = "WARNING"
    /\ Success(result)

\* C7: a template that has been validated is recorded as failed with a
\* TemplateError exactly when it has no columns or a column that is no
\* defined dimension; for such a template load_dimension was never called and
\* no workbook was written, and right after the error the dataset cache is
\* empty; every written workbook belongs to a template whose columns are all
\* defined dimensions.
C7_TemplateError ==
    /\ \A n \in DOMAIN templates :
          (n < tpos \/ (n = tpos /\ gpc # "ce_validate")) =>
             ((templates[n].columns = <<>> \/ ~(ColumnsOf(n) \subseteq DimensionKinds))
                <=> \E i \in Entries(results.failed, n) :
                       results.failed[i].error = "TemplateError")
    /\ \A i \in DOMAIN results.failed :
          results.failed[i].error = "TemplateError" =>
             /\ results.failed[i].name \notin written
             /\ \A k \in DOMAIN loads : loads[k][1] # results.failed[i].name
             /\ (gpc = "next" /\ tpos = results.failed[i].name) => dimension_data = <<>>
    /\ \A n \in written : ColumnsOf(n) \subseteq DimensionKinds /\ templates[n].columns # <<>>

\* C7 witness: TemplateError has just been raised for a template whose first
\* column is a defined dimension and whose second column is not
C7_Witness ==
    /\ gpc = "next"
    /\ tpos >= 1
    /\ templates[tpos].columns = <<"Good", Undefined>>
    /\ \E i \in Entries(results.failed, tpos) :
          results.failed[i].error = "TemplateError"
    /\ loads = <<>>

\* C8: when generate has returned for a non-empty list of selected templates,
\* the result has status ERROR (success false) exactly when no workbook was
\* written; when some template succeeded and some failed the status is
\* WARNING and the data names every selected template in its success or its
\* failed list; when no template failed the result is a success.
C8_OverallStatus ==
    (gpc = "done" /\ templates # <<>>) =>
        /\ (result.status = "ERROR") <=> (written = {})
        /\ ~Success(result) <=> (written = {})
        /\ (written # {} /\ written # DOMAIN templates) =>
              /\ result.status = "WARNING"
              /\ Names(result.data.success) = written
              /\ Names(result.data.failed) = DOMAIN templates \ written
        /\ (written = DOMAIN templates) => Success(result)

\* C8 witness: generate has returned WARNING with one success and one failure
C8_Witness ==
    /\ gpc = "done"
    /\ result.status = "WARNING"
    /\ Len(result.data.success) = 1
    /\ Len(result.data.failed) = 1

(***************************************************************************)
(* Claims about the fallback of load_date_range.                           *)
(***************************************************************************)
\* the fallback cases the claim names: no manual range, and the version file
\* is missing, has no row of the version or lacks the start or end column
FallbackCase ==
    /\ ~ManualSet
    /\ version_file.state \in {"missing", "no_row", "no_columns"}

\* C14 as stated: in a fallback case load_date_range does not raise, the date
\* range is the default twelve months 202501..202512, and when generate has
\* gone past its call the warnings of the run hold a warning about the date
\* range.
C14_FallbackWarning ==
    FallbackCase =>
        /\ dpc \notin {"raised", "reported_error"}
        /\ dpc \in {"returned", "reported"} =>
              /\ Len(date_range) = 12
              /\ date_range[1] = <<"2", "0", "2", "5", "0", "1">>
              /\ date_range[12] = <<"2", "0", "2", "5", "1", "2">>
        /\ dpc = "reported" =>
              \E i \in DOMAIN self_warnings : self_warnings[i].about = "date_range"

\* what the code does in a fallback case: no exception, the default range, and
\* no warning in the warnings of the run
C14_FallbackSilent ==
    FallbackCase =>
        /\ dpc \notin {"raised", "reported_error"}
        /\ dpc \in {"returned", "reported"} => date_range = DefaultRange
        /\ dpc = "reported" => self_warnings = <<>>

(***************************************************************************)
(* Claims about remove_unassigned.                                         *)
(***************************************************************************)
\* C11: remove_unassigned applied to its own output gives that output again,
\* the same rows in the same order; stated for the table load_dimension is
\* about to clean and for every output the stage has produced.
C11_Idempotent ==
    /\ ld_pc = "unassigned" =>
          remove_unassigned(remove_unassigned(ld_df)) = remove_unassigned(ld_df)
    /\ \A i \in DOMAIN stages :
          stages[i].stage = "remove_unassigned" =>
             remove_unassigned(stages[i].out) = stages[i].out

\* C11 witness: remove_unassigned has removed a row of a two-row table and
\* kept the other
C11_Witness ==
    /\ ld_pc = "filters"
    /\ Len(csv_file.table.rows) = 2
    /\ Len(ld_df.rows) = 1
    /\ stages[Len(stages)].stage = "remove_unassigned"

(***************************************************************************)
(* Claims about extract_column_values.                                     *)
(***************************************************************************)
\* the table load_csv returned to the call, when it returned one
LoadedTable == stages[CHOOSE i \in DOMAIN stages : stages[i].stage = "load_csv"].out.table

\* load_dimension has returned in the extraction mode, from a file that was
\* read and has the named column
Extracted ==
    /\ ld_pc = "returned"
    /\ dim_config.sac_name
    /\ dim_config.extract_column = "Value"
    /\ \E i \in DOMAIN stages : stages[i].stage = "load_csv" /\ stages[i].out.outcome = "frame"

\* the values of the column that are not null, not empty or blank and not one
\* of the sentinels '#' and 'Not In Hierarchy'
UsableValues ==
    {v \in {LoadedTable.rows[i].Value : i \in DOMAIN LoadedTable.rows} :
        /\ v # DescNaN
        /\ \E k \in DOMAIN v : v[k] # " "
        /\ v # <<"#">>
        /\ v # NotInHierarchy}

ResultIds == [i \in DOMAIN ld_result.table.rows |-> ld_result.table.rows[i].ID]

ColumnIs(vals) ==
    /\ Len(LoadedTable.rows) = Len(vals)
    /\ \A i \in DOMAIN vals : LoadedTable.rows[i].Value = vals[i]

\* C12: the extraction returns each usable value of the column once, ID equal
\* to Description in every row; with numeric_sort and every value a number
\* the rows are in non-decreasing order of integer value, otherwise in
\* increasing lexical order; the column 10, 2, 1 gives 1, 2, 10 with
\* numeric_sort and 1, 10, 2 without.
C12_Extraction ==
    Extracted =>
        /\ ld_result.outcome = "frame"
        /\ \A i \in DOMAIN ResultIds :
              ld_result.table.rows[i].Description = ResultIds[i]
        /\ {ResultIds[i] : i \in DOMAIN ResultIds} = UsableValues
        /\ Len(ResultIds) = Cardinality(UsableValues)
        /\ IF dim_config.numeric_sort /\ \A v \in UsableValues : IsFloat(v)
           THEN \A i \in 1..(Len(ResultIds) - 1) :
                   IntOfFloat(ResultIds[i]) <= IntOfFloat(ResultIds[i + 1])
           ELSE \A i \in 1..(Len(ResultIds) - 1) : StrLess(ResultIds[i], ResultIds[i + 1])
        /\ ColumnIs(<< <<"1", "0">>, <<"2">>, <<"1">> >>) =>
              ResultIds = IF dim_config.numeric_sort
                          THEN << <<"1">>, <<"2">>, <<"1", "0">> >>
                          ELSE << <<"1">>, <<"1", "0">>, <<"2">> >>

\* C12 witness: the column 10, 2, 1 extracted with numeric_sort
C12_Witness ==
    /\ Extracted
    /\ dim_config.numeric_sort
    /\ ColumnIs(<< <<"1", "0">>, <<"2">>, <<"1">> >>)
    /\ ResultIds = << <<"1">>, <<"2">>, <<"1", "0">> >>

(***************************************************************************)
(* Claims about the dataset load_dimension returns.                        *)
(***************************************************************************)
\* load_dimension has returned a dataset in the pipeline mode, from a file
\* that was read
Pipelined ==
    /\ ld_pc = "returned"
    /\ dim_config.extract_column = ""
    /\ \E i \in DOMAIN stages : stages[i].stage = "project"

\* the column of the file that serves as ID
IdColumn == IF original_col = "" THEN "ID" ELSE original_col

\* C13: in the pipeline mode every row of the returned dataset has an ID that
\* is not null, not empty and not '#', and that ID is the ID cell of a row of
\* the file; in the extraction mode every ID is a cell of the extracted column
\* that is not null, not empty and not '#'.
C13_UsableIds ==
    /\ Pipelined =>
          \A i \in DOMAIN ld_result.table.rows :
             /\ ld_result.table.rows[i].ID \notin {NaN, "", "#"}
             /\ \E k \in DOMAIN LoadedTable.rows :
                   LoadedTable.rows[k][IdColumn] = ld_result.table.rows[i].ID
    /\ Extracted =>
          \A i \in DOMAIN ld_result.table.rows :
             /\ ld_result.table.rows[i].ID \notin {DescNaN, <<>>, <<"#">>}
             /\ \E k \in DOMAIN LoadedTable.rows :
                   LoadedTable.rows[k].Value = ld_result.table.rows[i].ID

\* C13 witness: the file has a row without ID and a row with the ID '#', and
\* the returned dataset is empty
C13_Witness ==
    /\ Pipelined
    /\ "ID" \in LoadedTable.cols
    /\ Len(LoadedTable.rows) = 2
    /\ LoadedTable.rows[1].ID = NaN
    /\ LoadedTable.rows[2].ID = "#"
    /\ ld_result.table.rows = <<>>

(***************************************************************************)
(* Claims about load_csv.                                                  *)
(***************************************************************************)
\* C17 as stated: every call of load_csv on a file that is absent, empty or
\* unparsable raises CSVError; it returns neither a dataset nor None.
C17_AlwaysCSVError ==
    \A i \in DOMAIN stages :
       (stages[i].stage = "load_csv" /\ csv_file.state \in {"absent", "empty", "unparsable"}) =>
          /\ stages[i].out.outcome = "raise"
          /\ stages[i].out.exc = "CSVError"

(***************************************************************************)
(* Claims about the order of the stages of load_dimension.                 *)
(***************************************************************************)
\* the stages applied after load_csv, and their outputs
Applied == SubSeq(stages, 2, Len(stages))

\* the table the first stage is applied to
Cleaned0 == IF original_col = "" THEN LoadedTable ELSE Rename(LoadedTable, original_col)

\* C18: when load_dimension has returned in the pipeline mode the stages it
\* applied are, in this order, remove_unassigned, apply_filters,
\* get_leaf_members exactly when the dimension is hierarchical, the
\* allow-list again, and the projection; each stage was applied to the
\* output of the stage before it, so with an allow-list both the output of
\* apply_filters and the output of the second pass hold listed IDs only; the
\* returned dataset is the output of the projection.
C18_StageOrder ==
    Pipelined =>
        LET h == dim_config.has_hierarchy
            n == IF h THEN 5 ELSE 4
            out(k) == Applied[k].out
            in_list(t) == \A i \in DOMAIN t.rows :
                             \E j \in DOMAIN dim_config.filters.id_list :
                                dim_config.filters.id_list[j] = t.rows[i].ID
        IN /\ [k \in DOMAIN Applied |-> Applied[k].stage] =
                 IF h THEN <<"remove_unassigned", "apply_filters", "get_leaf_members",
                             "id_list", "project">>
                 ELSE <<"remove_unassigned", "apply_filters", "id_list", "project">>
           /\ out(1) = remove_unassigned(Cleaned0)
           /\ out(2) \in apply_filters(out(1), dim_config.filters)
           /\ h => out(3) = get_leaf_members(out(2), dim_config.parent_filter)
           /\ out(n - 1) \in IdListAgain(out(n - 2), dim_config.filters.id_list)
           /\ out(n) = Project(out(n - 1))
           /\ ld_result = Frame(out(n))
           /\ dim_config.filters.id_list # <<>> => in_list(out(2)) /\ in_list(out(n - 1))

\* C18 witness: a hierarchical dimension with the allow-list B, A; the filters
\* kept both rows of the file in the order B, A and the leaf extraction then
\* removed the parent A
C18_Witness ==
    /\ Pipelined
    /\ dim_config.has_hierarchy
    /\ dim_config.filters.id_list = <<"B", "A">>
    /\ "ID" \in LoadedTable.cols
    /\ Len(LoadedTable.rows) = 2
    /\ LoadedTable.rows[1].ID = "A"
    /\ Len(Applied[2].out.rows) = 2
    /\ Applied[2].out.rows[1].ID = "B"
    /\ Len(Applied[3].out.rows) = 1
    /\ Len(ld_result.table.rows) = 1

(***************************************************************************)
(* Claims about the members load_dimension returns for a hierarchy.        *)
(***************************************************************************)
\* the members of the source table: its rows without the unassigned ones
SourceMembers == remove_unassigned(Cleaned0).rows

\* C19 as stated: every ID load_dimension returns for a hierarchical
\* dimension is a leaf of the source table: no member of the source table,
\* whether or not the exclusion filter or the allow-list kept it, has that ID
\* in a parent column.
C19_OnlySourceLeaves ==
    (Pipelined /\ dim_config.has_hierarchy) =>
        \A i \in DOMAIN ld_result.table.rows :
           \A k \in DOMAIN SourceMembers :
              \A c \in find_parent_columns(LoadedTable) :
                 SourceMembers[k][c] # ld_result.table.rows[i].ID

(***************************************************************************)
(* Claims about the choice of the ID column.                               *)
(***************************************************************************)
\* the ordered rule: the first column whose name contains 'ID', otherwise the
\* first column
RuleIdColumn(columns) ==
    IF \E i \in DOMAIN columns : ContainsID(columns[i])
    THEN columns[CHOOSE i \in DOMAIN columns :
            ContainsID(columns[i]) /\ \A j \in 1..(i - 1) : ~ContainsID(columns[j])]
    ELSE columns[1]

\* C20 as stated: when the table read has no column named ID, the column
\* load_dimension uses as ID is a column whose name contains 'ID' if there is
\* one and the first column otherwise, and no error is recorded as long as
\* the table has a column.
C20_OrderedRule ==
    (/\ ld_pc \notin {"call", "find", "load", "id_check", "extract", "extract_load"}
     /\ \E i \in DOMAIN stages : stages[i].stage = "load_csv" /\ stages[i].out.outcome = "frame"
     /\ dim_config.extract_column = ""
     /\ "ID" \notin LoadedTable.cols) =>
        /\ original_col = RuleIdColumn(LoadedTable.columns)
        /\ self_errors = <<>>

(***************************************************************************)
(* Claims about the Upload sheet.                                          *)
(***************************************************************************)
\* C15: when _setup_upload_sheet has finished, row 1 of the Upload sheet has
\* a cell in exactly the columns 1 .. (number of template columns + number of
\* date tokens); the first cells hold the template columns in template order
\* and the cells after them hold the date tokens in range order; two columns
\* and three months give five cells.
C15_HeaderRow ==
    sh_pc = "done" =>
        /\ DOMAIN ws_row1 = 1..(Len(sheet_columns) + Len(date_range))
        /\ \A i \in DOMAIN sheet_columns : ws_row1[i] = sheet_columns[i]
        /\ \A j \in DOMAIN date_range : ws_row1[Len(sheet_columns) + j] = date_range[j]
        /\ (Len(sheet_columns) = 2 /\ Len(date_range) = 3) => Cardinality(DOMAIN ws_row1) = 5

\* C15 witness: the sheet of two dimension columns and a 3-month range
C15_Witness ==
    /\ sh_pc = "done"
    /\ sheet_columns = <<"Good", "NoFile">>
    /\ Len(date_range) = 3
    /\ Cardinality(DOMAIN ws_row1) = 5
    /\ ws_row1[2] = "NoFile"
    /\ ws_row1[3] = <<"2", "0", "2", "5", "0", "1">>

(***************************************************************************)
(* Claims about the stored dimensions.                                     *)
(***************************************************************************)
\* C16 as stated: after any sequence of PUT and DELETE requests on a project
\* that started without dimensions, no two stored dimension records have the
\* same name.
C16_UniqueNames ==
    \A i, j \in DOMAIN dimensions_json :
       (i # j /\ dimensions_json[i].name # NoName) =>
          dimensions_json[i].name # dimensions_json[j].name

(***************************************************************************)
(* Claims about find_csv_file.                                             *)
(***************************************************************************)
\* the candidate order the claim gives, by the hierarchy flag
Candidates ==
    IF has_hierarchy
    THEN <<WithHierarchyCsv(sac_name), MasterCsv(sac_name), PlainCsv(sac_name)>>
    ELSE <<MasterCsv(sac_name), PlainCsv(sac_name), WithHierarchyCsv(sac_name)>>

\* C27: when find_csv_file has returned, the file it returns is the first of
\* the candidates {id}MasterWithHierarchy.csv, {id}Master.csv, {id}.csv (for a
\* hierarchical dimension) or {id}Master.csv, {id}.csv,
\* {id}MasterWithHierarchy.csv (otherwise) that exists in the downloads
\* directory, and it returns no file exactly when none of the three exists.
C27_FirstExisting ==
    f_pc = "returned" =>
        /\ found = <<>> <=> \A i \in 1..3 : Candidates[i] \notin downloads
        /\ found # <<>> =>
              \E i \in 1..3 :
                 /\ found = Candidates[i]
                 /\ found \in downloads
                 /\ \A j \in 1..(i - 1) : Candidates[j] \notin downloads

\* C27 witness: a non-hierarchical dimension with all three files present gets
\* {id}Master.csv, not the hierarchy file
C27_Witness ==
    /\ f_pc = "returned"
    /\ ~has_hierarchy
    /\ \A i \in 1..3 : Candidates[i] \in downloads
    /\ found = MasterCsv(sac_name)

(***************************************************************************)
(* Claims about the dataset cache of create_excel.                         *)
(***************************************************************************)
\* the calls of load_dimension made for column col while generating the
\* template at position t
LoadsOf(t, col) == {i \in DOMAIN loads : loads[i] = <<t, col>>}

\* C24: while one template is generated, load_dimension is called at most
\* once for each distinct column name, also when the name occurs more than
\* once in the column list or its first load raised DimensionError.
C24_LoadedOnce ==
    \A t \in 1..Len(templates) : \A col \in ColumnNames :
        Cardinality(LoadsOf(t, col)) <= 1

\* C24 witness: a template lists twice a column whose load raises
\* DimensionError; both occurrences are behind and it was loaded once
C24_Witness ==
    /\ gpc = "ce_load"
    /\ cpos = 3
    /\ Columns = <<"NoSacName", "NoSacName">>
    /\ Cardinality(LoadsOf(tpos, "NoSacName")) = 1
    /\ dimension_errors = <<[about |-> "NoSacName", text |-> "DimensionError"]>>

(***************************************************************************)
(* Claims about the lookup tables and the validation of a workbook.        *)
(***************************************************************************)
\* the table of the given name registered on the lookup sheet of column col
LookupTables(col, name) ==
    {t \in wb_tables : t.sheet = SheetTitle(col) /\ t.displayName = name}

\* C21 as stated: in a built workbook, for every dimension column the list
\* validation attached to the column on the Upload sheet references the ID
\* column of a named table registered on the column's lookup sheet under the
\* same table name (the configured table_name, or tbl_ plus the normalized
\* dimension name), also when the dimension has zero members.
C21_ValidationHasTable ==
    bk_pc = "built" =>
        \A i \in DOMAIN bk_template.columns :
            LET col == bk_template.columns[i]
                v == data_validations[i]
            IN /\ v.type = "list"
               /\ v.col_idx = i
               /\ v.column = "ID"
               /\ v.table = TableName(col, ce_dimensions[col])
               /\ \E t \in LookupTables(col, v.table) :
                     \E k \in DOMAIN t.header : t.header[k] = v.column

\* C22 as stated: in a built workbook, for every dimension column the rows
\* covered by its dropdown validation are the data-entry rows created on the
\* Upload sheet, rows 2 to data_rows + 1 with data_rows the template's own
\* count when set and the project default otherwise.
C22_ValidationRows ==
    bk_pc = "built" =>
        \A i \in DOMAIN bk_template.columns :
            /\ data_validations[i].first = upload_rows.first
            /\ data_validations[i].last = upload_rows.last
            /\ upload_rows.first = 2
            /\ upload_rows.last =
                  (IF "data_rows" \in DOMAIN bk_template THEN bk_template.data_rows
                   ELSE ProjectDataRows) + 1

(***************************************************************************)
(* Claims about the overrides and the dataset cache.                       *)
(***************************************************************************)
\* the stored filter spec of a dimension and the override a template has for
\* it (the empty dict when it has none)
OwnFilters(col) == ByName(dimensions_config)[col].filters

OverrideFor(t, col) == Get(OverridesOf(ov_templates[t]), col, <<>>)

\* eff is the shallow merge of override into own: the keys of the override
\* have the override's value, every other key of own keeps its value, and
\* there is no further key
IsShallowMerge(eff, own, override) ==
    /\ DOMAIN eff = DOMAIN own \cup DOMAIN override
    /\ \A k \in DOMAIN override : eff[k] = override[k]
    /\ \A k \in DOMAIN own \ DOMAIN override : eff[k] = own[k]

\* the override items of template t that name no dimension, among the first n
UnknownItems(t, n) ==
    {i \in 1..n : ov_templates[t].dimension_overrides[i].name
                     \notin DOMAIN ByName(dimensions_config)}

\* the number of override items of the templates generated so far that name
\* no dimension
RECURSIVE UnknownSoFar(_)
UnknownSoFar(t) ==
    IF t = 0 THEN 0
    ELSE UnknownSoFar(t - 1) +
         Cardinality(UnknownItems(t, IF t < ov_tpos \/ ov_pc # "overrides"
                                     THEN Len(ov_templates[t].dimension_overrides)
                                     ELSE ov_pos - 1))

\* C23: the filter spec load_dimension is given for a column, by create_excel
\* and by api_preview, is the shallow merge of the template's override for
\* the column into the dimension's own filter spec: every key of the override
\* has the override's value, every other filter key the dimension's own.  An
\* override that names no dimension changes no dimension of create_excel's
\* dict and adds one warning to self.warnings, nothing else.
C23_ShallowMerge ==
    /\ \A i \in DOMAIN ov_loads :
          IsShallowMerge(ov_loads[i].filters, OwnFilters(ov_loads[i].col),
                         OverrideFor(ov_loads[i].template, ov_loads[i].col))
    /\ \A i \in DOMAIN previewed :
          previewed[i].col \in DOMAIN ByName(dimensions_config) =>
             IsShallowMerge(previewed[i].config.filters, OwnFilters(previewed[i].col),
                            OverrideFor(previewed[i].template, previewed[i].col))
    /\ ov_pc \in {"overrides", "load"} =>
          /\ DOMAIN ov_dimensions = DOMAIN ByName(dimensions_config)
          /\ \A n \in DOMAIN ov_dimensions :
                (\A i \in 1..(IF ov_pc = "overrides" THEN ov_pos - 1
                              ELSE Len(OvTemplate.dimension_overrides)) :
                    OvTemplate.dimension_overrides[i].name # n) =>
                   ov_dimensions[n] = ByName(dimensions_config)[n]
    /\ ov_pc \notin {"call", "previewed", "preview_error"} =>
          /\ Len(ov_warnings) = UnknownSoFar(ov_tpos)
          /\ \A i \in DOMAIN ov_warnings :
                ov_warnings[i].about \notin DOMAIN ByName(dimensions_config)

\* C23 witness: D1 has the filter spec {exclude_description: [x], id_list: [B]},
\* the template overrides id_list only (after an item for an unknown name),
\* and D1 was loaded with the inherited exclude_description, the override's
\* id_list and one warning recorded
C23_Witness ==
    /\ ov_pc = "load"
    /\ OwnFilters("D1") = [exclude_description |-> << <<"x">> >>, id_list |-> <<"B">>]
    /\ Len(OvTemplate.dimension_overrides) = 2
    /\ OvTemplate.dimension_overrides[2].override = [id_list |-> <<"A">>]
    /\ \E i \in DOMAIN ov_loads :
          /\ ov_loads[i].template = ov_tpos
          /\ ov_loads[i].col = "D1"
          /\ ov_loads[i].filters = [exclude_description |-> << <<"x">> >>, id_list |-> <<"A">>]
    /\ Len(ov_warnings) >= 1


\* the dimension record create_excel builds for a column when template t is
\* generated alone: the stored record with the template's own override merged
\* into its filters
AloneConfig(t, col) ==
    [ByName(dimensions_config)[col] EXCEPT
        !.filters = Merge(@, OverrideFor(t, col))]

\* C25: nothing a template does leaks into the next one.  When create_excel
\* starts on a template the dataset cache is empty; no step changes the stored
\* dimension definitions or their filter specs; and every dataset a template
\* holds in the cache, after templates that failed or succeeded, is one that
\* generating the template alone gives.
C25_NoLeak ==
    /\ [](ov_pc = "overrides" => ov_cache = <<>>)
    /\ [][dimensions_config' = dimensions_config]_vars
    /\ [](ov_pc = "load" =>
             \A col \in DOMAIN ov_cache : ov_cache[col] \in Datasets(AloneConfig(ov_tpos, col)))

\* C25 witness: the first template overrode the allow-list of D1 with [B] and
\* failed after loading it; the second has no override and holds the dataset
\* of D1's own allow-list [A]
C25_Witness ==
    /\ ov_pc = "load"
    /\ ov_tpos = 2
    /\ ov_outcomes = <<"failed">>
    /\ OwnFilters("D1") = [id_list |-> <<"A">>]
    /\ ov_templates[1].dimension_overrides = <<[name |-> "D1", override |-> [id_list |-> <<"B">>]]>>
    /\ ov_templates[1].columns = <<"D1", "D2", "D1">>
    /\ ov_templates[2].dimension_overrides = <<>>
    /\ "D1" \in DOMAIN ov_cache
    /\ [i \in DOMAIN ov_cache["D1"].rows |-> ov_cache["D1"].rows[i].ID] = <<"A">>

(***************************************************************************)
(* Claims about the precedence and the outcome of load_date_range.         *)
(***************************************************************************)
\* the project settings carry both a start month and an end month
FullySet == manual_range.start_month # <<>> /\ manual_range.end_month # <<>>

\* the inclusive expansion of two YYYYMM tokens, empty when start is after end
Expansion(start, end) ==
    [i \in 1..(MonthIndex(end) - MonthIndex(start) + 1) |->
        FormatToken((MonthIndex(start) + i - 1) \div 12, ((MonthIndex(start) + i - 1) % 12) + 1)]

\* the version lookup cannot be completed: no readable table with the row and
\* the two columns, or values that do not parse or give no month at all
LookupFails ==
    \/ version_file.state # "ok"
    \/ ~ParsesOk(version_file.start, version_file.end)
    \/ ~TupleLeq(ToInt(YearPart(version_file.start)), ToInt(MonthPart(version_file.start)),
                 ToInt(YearPart(version_file.end)), ToInt(MonthPart(version_file.end)))

\* C26: manual override, then version lookup, then default.  With both a start
\* and an end month in the project settings the version file is never looked
\* at and the default never used, whatever the version file holds, and the
\* range load_date_range returns with is the expansion of the two values; the
\* manual branch is taken in no other case; the version table is consulted
\* only when the override is not fully set, and the default range is used
\* only when the version lookup cannot be completed.
C26_Precedence ==
    /\ FullySet =>
          /\ \A i \in DOMAIN dr_steps : dr_steps[i] = "manual"
          /\ (/\ dpc \in {"returned", "reported"}
              /\ manual_range.start_month \in ValidTokens
              /\ manual_range.end_month \in ValidTokens) =>
                date_range = Expansion(manual_range.start_month, manual_range.end_month)
    /\ ~FullySet => \A i \in DOMAIN dr_steps : dr_steps[i] # "manual"
    /\ (\E i \in DOMAIN dr_steps : dr_steps[i] = "default") =>
          /\ LookupFails
          /\ date_range = DefaultRange
    /\ (/\ ~FullySet /\ ~LookupFails
        /\ dpc \in {"returned", "reported"}
        /\ version_file.start \in ValidTokens
        /\ version_file.end \in ValidTokens) =>
          date_range = Expansion(version_file.start, version_file.end)

\* C26 witness: the settings give 202503..202504 and the version row
\* 202501..202502; load_date_range has returned with the two months of the
\* settings
C26_Witness ==
    /\ dpc = "returned"
    /\ version_file = SomeVersionFile
    /\ manual_range.start_month = <<"2", "0", "2", "5", "0", "3">>
    /\ manual_range.end_month = <<"2", "0", "2", "5", "0", "4">>
    /\ date_range = << <<"2", "0", "2", "5", "0", "3">>, <<"2", "0", "2", "5", "0", "4">> >>

\* C29 as stated: for every project configuration and every state of the
\* version file load_date_range returns normally, and the date range it leaves
\* is not empty and its tokens all have a month part between 01 and 12.
C29_AlwaysARange ==
    /\ dpc \notin {"raised", "reported_error"}
    /\ dpc \in {"returned", "reported"} =>
          /\ date_range # <<>>
          /\ \A i \in DOMAIN date_range : ToInt(MonthPart(date_range[i])) \in 1..12

(***************************************************************************)
(* Claims about the parent-subtree filter of load_dimension.               *)
(***************************************************************************)
\* the IDs of the rows with a parent reference to one of the IDs given
ReferTo(rows, pcols, ids) ==
    {rows[i].ID : i \in {k \in DOMAIN rows : \E c \in pcols : rows[k][c] \in ids}}

\* the descendants of the roots in the table: the IDs reached from a root
\* through one or more parent references
RECURSIVE DescendantsFrom(_, _, _, _)
DescendantsFrom(rows, pcols, roots, reached) ==
    LET more == ReferTo(rows, pcols, roots \cup reached)
    IN IF more \subseteq reached THEN reached
       ELSE DescendantsFrom(rows, pcols, roots, reached \cup more)

\* C28 as stated: for a hierarchical dimension with a parent-subtree filter
\* every member load_dimension returns is a descendant, through one or more
\* parent references of the source table, of one of the configured root IDs,
\* for every source table, one without a parent-reference column included.
C28_OnlyDescendants ==
    (Pipelined /\ dim_config.has_hierarchy /\ Truthy(dim_config.parent_filter)) =>
        \A i \in DOMAIN ld_result.table.rows :
            ld_result.table.rows[i].ID \in
                DescendantsFrom(Cleaned0.rows, find_parent_columns(Cleaned0),
                                dim_config.parent_filter.ids, {})

(***************************************************************************)
(* Claims about the filter spec of an extracted dimension.                 *)
(***************************************************************************)
\* what a call of load_dimension in the extraction mode gives for the
\* configuration, on the answers the downloads directory gave to this call
ExtractCall(cfg) ==
    IF ~cfg.sac_name THEN Raise("DimensionError")
    ELSE IF \A i \in DOMAIN stages : stages[i].stage # "load_csv" THEN Frame(EmptyFrame)
    ELSE ExtractOutcome(cfg, stages[CHOOSE i \in DOMAIN stages :
                                        stages[i].stage = "load_csv"].out)

\* C30: for a dimension configured with extract_column the output of
\* load_dimension does not depend on the filter spec or on a template
\* override: the load of the same source table under any other
\* exclude_description, id_list or parent_filter returns the same dataset.
C30_FiltersIgnored ==
    (ld_pc = "returned" /\ dim_config.extract_column # "") =>
        \A v \in FilterVariants : ld_result = ExtractCall(WithFilters(dim_config, v))

\* C30 witness: a dimension with all three filters set has been extracted,
\* and the dataset holds a value the exclusion pattern matches and a value
\* that is not in the ID list.
C30_Witness ==
    /\ ld_pc = "returned"
    /\ dim_config.extract_column = "Value"
    /\ dim_config.filters.exclude_description = << <<"x">> >>
    /\ dim_config.filters.id_list = << <<"2">> >>
    /\ dim_config.parent_filter.kind = "str"
    /\ ld_result.outcome = "frame"
    /\ \E i \in DOMAIN ld_result.table.rows : ld_result.table.rows[i].ID = <<"x">>
    /\ \E i \in DOMAIN ld_result.table.rows : ld_result.table.rows[i].ID = <<"1">>

====
